---- MODULE Spec2Model ----
(***************************************************************************)
(* Agent generation pipeline of strudel-studio: the fast-path route        *)
(* (src/unnamed/part_002), the streaming route (src/unnamed/part_003,      *)
(* lines 1-309), the tool registry both routes share, the code validator   *)
(* (src/unnamed/part_005, and its other copy src/unnamed/part_006), the    *)
(* two handlers of the chat route (src/src/app/api/chat/route.ts) and the  *)
(* browser client's stream reader (src/src/components/ChatPanel.tsx).      *)
(*                                                                         *)
(* Spec runs one request through a route.  ValidatorSpec, GenreSpec and    *)
(* ClientSpec exercise the validator, read_genre and the client's reader   *)
(* on their own, over bounded inputs.  PanelSpec runs ChatPanel's          *)
(* sendMessage and handleRetry against the responses of the streaming      *)
(* route, and AudioSpec the play control of CodePanel.tsx with the audio   *)
(* engine of src/src/lib/strudel.ts.                                       *)
(*                                                                         *)
(* Text is modelled as a sequence of lexemes.  A lexeme stands for a       *)
(* maximal run of characters of the real string; the substring tests of    *)
(* the source (String.includes, the regular expressions) are evaluated on  *)
(* lexemes, which are chosen so that no probed substring spans two of      *)
(* them.                                                                   *)
(***************************************************************************)
EXTENDS Integers, Sequences, FiniteSets, TLC

VARIABLES
    path,             \* which route handles the request: "fast" | "stream" |
                      \* "chat_anthropic" | "chat_openai"
    apiKey,           \* process.env.ANTHROPIC_API_KEY is set
    body,             \* the request body as sent by the caller
    pc,               \* position of the handler
    elapsed,          \* Date.now() - startTime, in ms
    iterations,       \* the loop's iteration counter
    currentMessages,  \* the working conversation
    inflight,         \* the messages argument of the pending capability call
    ctrl,             \* operations performed on the stream controller, in order
    response,         \* the HTTP response returned by POST (<<>> while none)
    invocations,      \* number of capability invocations issued
    dispatches,       \* number of executeTool calls made
    settled,          \* how the latest invocation settled: a response or an error
    alwaysTools,      \* every invocation so far returned tool_use with >= 1 tool block
    allSlow,          \* every invocation so far took longer than REQUEST_TIMEOUT_MS
    validations,      \* the calls of the validator made so far, in order, each
                      \* with its argument, its result and the report of it
    genreContent,     \* the content bundled for the genre that is read
    genreOut,         \* what read_genre returned for it (<<>> while not read)
    emitted,          \* the events the streaming route sent for the request
    wire,             \* the part of the response body not yet read by the client
    handled,          \* the events the client's stream loop has processed
    clientPc,         \* position of the client's stream reader
    storeMessages,    \* the chat messages of the store (its field messages)
    isLoading,        \* the store's loading flag
    retryMessage,     \* ChatPanel's retry state: <<>> for null, else <<text>>
    currentCode,      \* the code in the editor: <<>> while none was placed
    history,          \* the message lists sent to the server, one per request
    incoming,         \* the events of the response not yet processed
    lastEvent,        \* the latest event the switch statement processed
    panelPc,          \* position of ChatPanel.sendMessage
    strudelRepl,      \* strudel.ts: 0 for null, else the number of the REPL instance
                      \* held, instances numbered in order of creation
    isInitialized,    \* strudel.ts
    samplesLoaded,    \* strudel.ts
    audioContext,     \* strudel.ts: 0 for null, else the number of the AudioContext
                      \* held, contexts numbered in order of creation
    masterGainNode,   \* strudel.ts: whether the gain node exists
    initProgress,     \* strudel.ts
    isPlaying,        \* the store's playing flag
    isInitializing,   \* CodePanel state
    initStatus,       \* CodePanel state
    strudelRef,       \* CodePanel: whether strudelRef.current holds an instance
    playError,        \* CodePanel state error: <<>> for null, else <<text>>
    plays             \* position of each handlePlay invocation made so far

\* the state of a request handler
agentVars == <<path, apiKey, body, pc, elapsed, iterations, currentMessages, inflight,
               ctrl, response, invocations, dispatches, settled, alwaysTools, allSlow>>
\* the state of the library functions and of the browser client
libVars == <<validations, genreContent, genreOut>>
clientVars == <<emitted, wire, handled, clientPc>>
panelVars == <<storeMessages, isLoading, retryMessage, currentCode, history, incoming,
               lastEvent, panelPc>>

\* the state of the audio engine and of the code panel
audioVars == <<strudelRepl, isInitialized, samplesLoaded, audioContext, masterGainNode,
               initProgress, isPlaying, isInitializing, initStatus, strudelRef, playError,
               plays>>

vars == <<agentVars, libVars, clientVars, panelVars, audioVars>>

-----------------------------------------------------------------------------
(* Bounds of the model *)

\* iterations (counted from 1) in which the capability may answer with any
\* of its contents; later iterations request the basic tool call only and
\* answer with one of two texts
VariedTurns == 1

\* the clock is not advanced beyond this many budget-lengths
MaxClockBudgets == 2

\* the codes given to the validator have at most this many lines
MaxLines == 2

\* the validator is called at most this many times in a row
MaxCalls == 3

\* the genre contents given to read_genre have at most this many lines
MaxGenreLines == 3

\* the streaming route sends at most this many events for a request
MaxFrames == 4

\* the user sends at most this many messages, retries included
MaxSends == 2

\* the play control is used at most this many times
MaxPlays == 3

-----------------------------------------------------------------------------
(* Program constants *)

REQUEST_TIMEOUT_MS == 25000
FastMaxIterations == 4
StreamMaxIterations == 10
TruncateLimit == 2500

MaxClock == MaxClockBudgets * (REQUEST_TIMEOUT_MS + 1)

\* durations an awaited operation may take
Delays == {0, REQUEST_TIMEOUT_MS, REQUEST_TIMEOUT_MS + 1}

-----------------------------------------------------------------------------
(* Sequence helpers *)

RECURSIVE SumSeq(_)
SumSeq(s) == IF s = <<>> THEN 0 ELSE Head(s) + SumSeq(Tail(s))

RECURSIVE Flatten(_)
Flatten(ss) == IF ss = <<>> THEN <<>> ELSE Head(ss) \o Flatten(Tail(ss))

Min(S) == CHOOSE m \in S : \A n \in S : m <= n

\* Array.prototype.join on texts: the separator goes between the parts
RECURSIVE Join(_, _)
Join(parts, sep) ==
    IF parts = <<>> THEN <<>>
    ELSE IF Len(parts) = 1 THEN parts[1]
    ELSE parts[1] \o sep \o Join(Tail(parts), sep)

-----------------------------------------------------------------------------
(* Lexemes *)

\* the three backticks of a Markdown code fence
FENCE == "<fence>"
NL    == "\n"
SP    == " "
Whitespace == {NL, SP}
LangTags == {"javascript", "js"}

SETCPS  == "setcps(130/4/60)"
STACK   == "stack(s('bd*4'))"
GLIDE   == "s('bd').glide(0.2)"
TEMPO   == "s('hh*8').tempo(120)"
OPEN    == "stack("
IDENT   == "bass"
UNDEF   == "undefined"
PROSE   == "Here is your track:"
\* a line comment quoting an empty assignment
COMMENT == "// let x = ;"
\* the tempo given as a quoted number
SETCPSQ == "setcps('0.5')"
\* an arrangement that repeats one section three times
ARRANGE == "arrange([4,a],[4,a],[4,a])"
\* the statement stack(c, c, c, c) where c is
\* s('bd').gain(1).pan(0).room(0).size(1).lpf(900)
CHAINS  == "stack(c, c, c, c)"

Lexemes == {FENCE, NL, SP, "javascript", "js", SETCPS, STACK, GLIDE, TEMPO, OPEN,
            IDENT, UNDEF, PROSE, COMMENT, SETCPSQ, ARRANGE, CHAINS}

\* the probed substrings each lexeme contains
Substrings(l) ==
    CASE l = SETCPS -> {"setcps(", "s("}
      [] l = STACK  -> {"stack(", "s("}
      [] l = OPEN   -> {"stack("}
      [] l = GLIDE  -> {".glide(", "s("}
      [] l = TEMPO  -> {".tempo(", "s("}
      [] l = UNDEF  -> {"undefined"}
      [] l = COMMENT -> {"let x = ;"}
      [] l = SETCPSQ -> {"setcps(", "s("}
      [] l = ARRANGE -> {"arrange("}
      [] l = CHAINS -> {"stack(", "s("}
      [] OTHER      -> {}

\* String.prototype.includes on a text
Includes(text, sub) == \E i \in 1..Len(text) : sub \in Substrings(text[i])

\* lexemes that are, on their own, one well-formed expression statement
Statements == {SETCPS, STACK, GLIDE, TEMPO, IDENT, UNDEF, "javascript", "js", SETCPSQ,
               ARRANGE, CHAINS}
\* lexemes whose last character is a closing parenthesis
EndsWithParen == {SETCPS, STACK, GLIDE, TEMPO, SETCPSQ, ARRANGE, CHAINS}
\* lexemes matching [a-z_][a-z0-9_]* (case-insensitively)
Identifiers == {IDENT, UNDEF, "javascript", "js"}

\* String.prototype.trim
RECURSIVE TrimLeft(_)
TrimLeft(t) == IF t # <<>> /\ Head(t) \in Whitespace THEN TrimLeft(Tail(t)) ELSE t
RECURSIVE TrimRight(_)
TrimRight(t) ==
    IF t # <<>> /\ t[Len(t)] \in Whitespace THEN TrimRight(SubSeq(t, 1, Len(t) - 1)) ELSE t
Trim(t) == TrimRight(TrimLeft(t))

\* String.prototype.split('\n')
RECURSIVE SplitLines(_)
SplitLines(t) ==
    IF \A i \in 1..Len(t) : t[i] # NL THEN <<t>>
    ELSE LET k == Min({i \in 1..Len(t) : t[i] = NL})
         IN  <<SubSeq(t, 1, k - 1)>> \o SplitLines(SubSeq(t, k + 1, Len(t)))

-----------------------------------------------------------------------------
(* Validator, src/unnamed/part_005 *)

\* acorn.parse on the lexeme language: a program is a sequence of lines, each
\* blank or holding exactly one expression statement
LineParses(line) ==
    LET toks == SelectSeq(line, LAMBDA l : l # SP)
        stmts == SelectSeq(toks, LAMBDA l : l # COMMENT)
    IN  /\ Len(stmts) <= 1
        /\ \A i \in 1..Len(stmts) : stmts[i] \in Statements
        /\ \A i \in 1..Len(toks) : toks[i] = COMMENT => i = Len(toks)

\* a parser that accepts every text
ParseFails_Never(code) == FALSE

ParseFails(code) == \E i \in 1..Len(SplitLines(code)) : ~LineParses(SplitLines(code)[i])

\* the 1-based line acorn reports
ParseErrorLine(code) ==
    Min({i \in 1..Len(SplitLines(code)) : ~LineParses(SplitLines(code)[i])})

hallucinations_TempoOnly == <<".tempo(">>

hallucinations == <<".tempo(", ".glide(", ".portamento(", ".slide(", ".volume(">>

\* h.slice(1, -1): the entry without its leading dot and its parenthesis
CallName(h) ==
    CASE h = ".tempo("      -> "tempo"
      [] h = ".glide("      -> "glide"
      [] h = ".portamento(" -> "portamento"
      [] h = ".slide("      -> "slide"
      [] h = ".volume("     -> "volume"

hasPlayable(code) ==
    LET trimmed  == Trim(code)
        lastLine == SplitLines(trimmed)[Len(SplitLines(trimmed))]
    IN  \/ Includes(code, "stack(")
        \/ Includes(code, "arrange(")
        \/ Includes(code, "cat(")
        \/ Includes(code, "sequence(")
        \/ (trimmed # <<>> /\ trimmed[Len(trimmed)] \in EndsWithParen)
        \/ (Len(TrimRight(lastLine)) = 1 /\ lastLine[1] \in Identifiers)

validateStrudelCode(code) ==
    IF ParseFails(code)
    THEN [valid    |-> FALSE,
          errors   |-> <<"Syntax error (line " \o ToString(ParseErrorLine(code)) \o ")">>,
          warnings |-> <<>>]
    ELSE LET tempoErrors ==
                 IF ~Includes(code, "setcps(")
                 THEN <<"Missing tempo - use setcps(BPM/4/60), e.g. setcps(130/4/60)">>
                 ELSE <<>>
             playWarnings ==
                 IF ~hasPlayable(code)
                 THEN <<"Code should end with stack(), arrange(), or a pattern expression">>
                 ELSE <<>>
             hallErrors ==
                 Flatten([i \in 1..Len(hallucinations) |->
                     IF Includes(code, hallucinations[i])
                     THEN <<CallName(hallucinations[i]) \o " is not a real Strudel function">>
                     ELSE <<>>])
             undefWarnings ==
                 IF Includes(code, "undefined")
                 THEN <<"Code contains undefined - check variable names">>
                 ELSE <<>>
             emptyErrors ==
                 IF Includes(code, "let x = ;")
                 THEN <<"Empty variable assignment found">>
                 ELSE <<>>
             errors   == tempoErrors \o hallErrors \o emptyErrors
             warnings == playWarnings \o undefWarnings
         IN  [valid |-> errors = <<>>, errors |-> errors, warnings |-> warnings]

\* a report that always has its warnings section
formatValidationResult_AlwaysWarnings(result) ==
    (IF result.valid
     THEN <<"Code is valid!">>
     ELSE <<"Validation failed:">> \o
          [i \in 1..Len(result.errors) |-> "  - " \o result.errors[i]])
    \o <<"", "Warnings:">> \o
          [i \in 1..Len(result.warnings) |-> "  ! " \o result.warnings[i]]

\* the report, as the sequence of lines that lines.join('\n') joins
formatValidationResult(result) ==
    (IF result.valid
     THEN <<"Code is valid!">>
     ELSE <<"Validation failed:">> \o
          [i \in 1..Len(result.errors) |-> "  - " \o result.errors[i]])
    \o
    (IF Len(result.warnings) > 0
     THEN <<"", "Warnings:">> \o
          [i \in 1..Len(result.warnings) |-> "  ! " \o result.warnings[i]]
     ELSE <<>>)

-----------------------------------------------------------------------------
(* Validator, src/unnamed/part_006: the same function in the repository's   *)
(* other copy of the validator module                                       *)

\* code.match(/^[a-z_][a-z0-9_]*\s*$/im): some line holds an identifier alone
IdentifierLine(code) ==
    \E i \in 1..Len(SplitLines(code)) :
        LET line == TrimRight(SplitLines(code)[i])
        IN  Len(line) = 1 /\ line[1] \in Identifiers

hasPlayableAlt(code) ==
    \/ Includes(code, "stack(")
    \/ Includes(code, "arrange(")
    \/ IdentifierLine(code)
    \/ (TrimRight(code) # <<>> /\ TrimRight(code)[Len(TrimRight(code))] \in EndsWithParen)

\* the matches of /s\(([^)]+)\)/g within a lexeme that hold no quote character:
\* the expression is not anchored at a word boundary, so that it matches the
\* tail of setcps(130/4/60)
UnquotedPatterns(l) == IF l = SETCPS THEN <<"s(130/4/60)">> ELSE <<>>

\* the number of matches of the long-chain expression within a lexeme
LongChains(l) == IF l = CHAINS THEN 4 ELSE 0

\* the arrange(...) expression matches, with more than two sections of which
\* fewer than half are distinct
RepeatedSections(code) == \E i \in 1..Len(code) : code[i] = ARRANGE

\* the return statement
Verdict_WarningsDecide(errors, warnings) ==
    [valid |-> errors = <<>> /\ warnings = <<>>, errors |-> errors, warnings |-> warnings]

Verdict(errors, warnings) ==
    [valid |-> errors = <<>>, errors |-> errors, warnings |-> warnings]

\* 2. required elements: the tempo
tempoErrorsAlt_Never(code) == <<>>

tempoErrorsAlt(code) ==
    IF ~Includes(code, "setcps(")
    THEN <<"Missing tempo - set BPM using setcps(BPM/4/60), e.g. setcps(130/4/60) for 130 BPM">>
    ELSE <<>>

\* 3. common mistakes
mistakeErrorsAlt(code) ==
    (IF Includes(code, "undefined")
     THEN <<"Code contains undefined - check variable names are defined before use">>
     ELSE <<>>)
    \o
    (IF Includes(code, "let x = ;")
     THEN <<"Found empty variable assignment (let x = ;)">>
     ELSE <<>>)

\* 4. missing quotes in pattern strings: one error per unquoted match
quoteErrorsAlt(code) ==
    Flatten([i \in 1..Len(code) |->
        [j \in 1..Len(UnquotedPatterns(code[i])) |->
            "Pattern " \o UnquotedPatterns(code[i])[j] \o " might be missing quotes"]])

warningsAlt(code) ==
    (IF ~hasPlayableAlt(code)
     THEN <<"Code may not have a playable expression">>
     ELSE <<>>)
    \o
    (IF Includes(code, ".s(") /\ ~Includes(code, "note(") /\ ~Includes(code, "s(")
     THEN <<".s() is typically used after note()">>
     ELSE <<>>)
    \o
    (IF RepeatedSections(code)
     THEN <<"Anti-pattern: Same sections repeated in arrange()">>
     ELSE <<>>)
    \o
    (IF SumSeq([i \in 1..Len(code) |-> LongChains(code[i])]) > 3
     THEN <<"Consider breaking long method chains into variables for readability">>
     ELSE <<>>)

validateStrudelCodeAlt(code) ==
    IF ParseFails(code)
    THEN [valid    |-> FALSE,
          errors   |-> <<"Syntax error (line " \o ToString(ParseErrorLine(code)) \o ")">>,
          warnings |-> <<>>]
    ELSE Verdict(tempoErrorsAlt(code) \o mistakeErrorsAlt(code) \o quoteErrorsAlt(code),
                 warningsAlt(code))

\* checkIfCodeValidated's regular expression /<fence>(?:javascript|js)?\n([\s\S]*?)<fence>/:
\* where the capture group starts for a match beginning at i (0: no match at i)
BodyStart(t, i) ==
    IF t[i] # FENCE THEN 0
    ELSE IF i + 2 <= Len(t) /\ t[i + 1] \in LangTags /\ t[i + 2] = NL THEN i + 3
    ELSE IF i + 1 <= Len(t) /\ t[i + 1] = NL THEN i + 2
    ELSE 0

ClosingFences(t, i) == {j \in 1..Len(t) : BodyStart(t, i) # 0 /\ j >= BodyStart(t, i) /\ t[j] = FENCE}

\* <<>> when the expression does not match, else <<capture group 1>>
MatchFenced(t) ==
    LET starts == {i \in 1..Len(t) : ClosingFences(t, i) # {}}
    IN  IF starts = {} THEN <<>>
        ELSE LET i == Min(starts)
             IN  <<SubSeq(t, BodyStart(t, i), Min(ClosingFences(t, i)) - 1)>>

-----------------------------------------------------------------------------
(* JavaScript values of a tool call's argument payload *)

Str(v) == [t |-> "string", v |-> v]
Num42 == [t |-> "number", v |-> <<>>]
Undefined == [t |-> "undefined", v |-> <<>>]

Truthy(x) == x.t = "number" \/ (x.t = "string" /\ x.v # <<>>)

\* input.key of an object given as a function from its keys
Get(input, key) == IF key \in DOMAIN input THEN input[key] ELSE Undefined

-----------------------------------------------------------------------------
(* Genre reference content *)

\* genre names are sequences of characters
Techno == <<"t", "e", "c", "h", "n", "o">>
House  == <<"h", "o", "u", "s", "e">>
Dnb    == <<"d", "n", "b">>
Polka  == <<"p", "o", "l", "k", "a">>
TechnoCaps == <<"T", "e", "c", "h", "n", "o", "!">>
Constructor == <<"c", "o", "n", "s", "t", "r", "u", "c", "t", "o", "r">>

LowerLetters == {"a", "b", "c", "d", "e", "f", "g", "h", "i", "j", "k", "l", "m",
                 "n", "o", "p", "q", "r", "s", "t", "u", "v", "w", "x", "y", "z"}

\* String.prototype.toLowerCase, character by character
ToLowerChar(c) ==
    CASE c = "T" -> "t" [] c = "H" -> "h" [] c = "D" -> "d" [] c = "P" -> "p"
      [] OTHER -> c

\* genre.toLowerCase().replace(/[^a-z]/g, '')
NormalizeGenre(g) ==
    SelectSeq([i \in 1..Len(g) |-> ToLowerChar(g[i])], LAMBDA c : c \in LowerLetters)

\* the bundled genre files: each content is its lines, a line given by what
\* it holds and its number of characters
BUNDLED_GENRES ==
    (Techno :> <<[kind |-> "text", len |-> 400], [kind |-> "fx", len |-> 100]>>) @@
    (House  :> <<[kind |-> "text", len |-> 1200], [kind |-> "text", len |-> 900],
                 [kind |-> "fx", len |-> 700], [kind |-> "text", len |-> 300]>>) @@
    (Dnb    :> <<[kind |-> "text", len |-> 1500], [kind |-> "text", len |-> 1400],
                 [kind |-> "structure", len |-> 30]>>)

AVAILABLE_GENRES == DOMAIN BUNDLED_GENRES

\* BUNDLED_GENRES is an object literal: a key it does not hold is looked up on
\* Object.prototype, whose only property named in lower-case letters alone is
\* 'constructor' (a function: truthy, with length 1)
PrototypeKeys == {Constructor}

\* content.length: the lines and the newlines between them
ContentLength(lines) == SumSeq([i \in 1..Len(lines) |-> lines[i].len]) + (Len(lines) - 1)

\* the loop of truncateGenreContent over lines[k..]; n is result.length so far.
\* The result is the number of leading characters of the content that are kept
\* and the text appended to them.
RECURSIVE TruncateFrom(_, _, _)
TruncateFrom(lines, k, n) ==
    IF k > Len(lines) THEN [keep |-> n, tail |-> ""]
    ELSE IF lines[k].kind \in {"fx", "structure"}
    THEN [keep |-> n, tail |-> "\n(See full genre file for FX/structure details)"]
    ELSE IF n + lines[k].len + 1 > TruncateLimit
    THEN [keep |-> TruncateLimit, tail |-> "\n..."]
    ELSE TruncateFrom(lines, k + 1, n + lines[k].len + 1)

truncateGenreContent(lines) ==
    IF ContentLength(lines) <= TruncateLimit
    THEN [keep |-> ContentLength(lines), tail |-> ""]
    ELSE TruncateFrom(lines, 1, 0)

-----------------------------------------------------------------------------
(* Tool registry: executeTool, identical in part_002 and part_003 *)

Returned(v) == [threw |-> FALSE, value |-> v]
\* a TypeError raised while executing the tool
Threw == [threw |-> TRUE, value |-> <<>>]

executeTool(name, input) ==
    CASE name = "read_genre" ->
           LET raw == IF Truthy(Get(input, "genre")) THEN Get(input, "genre") ELSE Str(<<>>)
           IN  IF raw.t # "string" THEN Threw      \* raw.toLowerCase is not a function
               ELSE LET genre == NormalizeGenre(raw.v)
                    IN  IF genre \in PrototypeKeys \ DOMAIN BUNDLED_GENRES
                        THEN Returned([kind |-> "function", name |-> genre])
                        ELSE IF genre \notin DOMAIN BUNDLED_GENRES
                        THEN Returned([kind |-> "unknown_genre", genre |-> genre,
                                       available |-> AVAILABLE_GENRES])
                        ELSE Returned([kind |-> "genre", genre |-> genre,
                                       text |-> truncateGenreContent(BUNDLED_GENRES[genre])])
      [] name = "validate_code" ->
           LET code == Get(input, "code")
           IN  IF ~Truthy(code)
               THEN Returned([kind |-> "text", text |-> "Error: No code provided to validate"])
               ELSE IF code.t # "string" THEN Threw   \* code.includes is not a function
               ELSE Returned([kind |-> "report",
                              lines |-> formatValidationResult(validateStrudelCode(code.v))])
      [] OTHER -> Returned([kind |-> "unknown_tool", name |-> name])

\* checkIfCodeValidated, part_003
checkIfCodeValidated(content) ==
    LET codeMatch == MatchFenced(content)
    IN  IF codeMatch = <<>> THEN FALSE
        ELSE validateStrudelCode(Trim(codeMatch[1])).valid

-----------------------------------------------------------------------------
(* The text-generation capability: what anthropic.messages.create may return *)

TextBlock(t) == [type |-> "text", text |-> t]
ToolUse(name, input) == [type |-> "tool_use", id |-> <<0, 0>>, name |-> name, input |-> input]

GoodCode == <<SETCPS, NL, STACK>>
NoTempoCode == <<STACK>>
GlideCode == <<SETCPS, NL, GLIDE>>

GoodText    == <<PROSE, NL, FENCE, "javascript", NL>> \o GoodCode \o <<NL, FENCE>>
NoTempoText == <<FENCE, "js", NL>> \o NoTempoCode \o <<NL, FENCE, NL, PROSE>>
GlideText   == <<PROSE, SP, FENCE, NL, NL>> \o GlideCode \o <<FENCE>>
PlainText   == <<PROSE>>
UnclosedText == <<FENCE, NL>> \o GoodCode

\* contents with which a run ends: text blocks, and tool-use blocks only where
\* the stop reason lets the loop ignore them
FinalContents ==
    { <<>>,
      <<TextBlock(GoodText)>>,
      <<TextBlock(NoTempoText)>>,
      <<TextBlock(GlideText)>>,
      <<TextBlock(PlainText)>>,
      <<TextBlock(UnclosedText)>>,
      <<TextBlock(<<PROSE, NL, FENCE, "js">>), TextBlock(GoodCode \o <<FENCE>>)>> }

\* the basic tool request: validate well-formed code
BasicToolContents ==
    { <<ToolUse("validate_code", [code |-> Str(GoodCode)])>> }

ToolContents ==
    BasicToolContents \cup
    { <<TextBlock(PlainText), ToolUse("read_genre", [genre |-> Str(TechnoCaps)]),
        ToolUse("validate_code", [code |-> Str(GlideCode)])>>,
      <<ToolUse("read_genre", [genre |-> Str(Polka)]), ToolUse("read_genre", [genre |-> Str(House)])>>,
      <<ToolUse("read_skill", [section |-> Str(<<"all">>)]),
        ToolUse("validate_code", [code |-> Str(<<>>)])>>,
      <<ToolUse("read_genre", [genre |-> Str(Dnb)]), ToolUse("read_genre", [genre |-> Num42])>>,
      <<ToolUse("validate_code", [code |-> Num42])>> }

\* tool requests the first invocation may return besides those above: a tool
\* that is not registered, alone, and a genre key that is not bundled but
\* names a property of Object.prototype
FirstTurnContents ==
    { <<ToolUse("read_skill", [section |-> Str(<<"all">>)])>>,
      <<ToolUse("read_genre", [genre |-> Str(Constructor)])>> }

\* the SDK gives every tool-use block its own id
WithIds(content, n) ==
    [i \in 1..Len(content) |->
        IF content[i].type = "tool_use" THEN [content[i] EXCEPT !.id = <<n, i>>]
        ELSE content[i]]

\* contents returned with a stop reason that the loop handles defensively
DefensiveContents ==
    { <<>>,
      <<TextBlock(GoodText)>>,
      <<TextBlock(<<PROSE, NL, FENCE, "js">>), TextBlock(GoodCode \o <<FENCE>>)>> }

\* the contents without a tool-use block that iterations after the varied
\* ones return
LaterContents == { <<TextBlock(GoodText)>>, <<TextBlock(NoTempoText)>> }

\* the responses the n-th invocation may return
Responses(n) ==
    { [stop_reason |-> "end_turn", content |-> c] :
          c \in IF n <= VariedTurns THEN FinalContents ELSE LaterContents }
    \cup
    { [stop_reason |-> sr, content |-> c] :
          sr \in {"max_tokens", "tool_use"},
          c \in IF n <= VariedTurns THEN DefensiveContents ELSE LaterContents }
    \cup
    { [stop_reason |-> "tool_use", content |-> WithIds(c, n)] :
          c \in IF n <= VariedTurns THEN ToolContents ELSE BasicToolContents }
    \cup
    { [stop_reason |-> "tool_use", content |-> WithIds(c, n)] :
          c \in IF n = 1 THEN FirstTurnContents ELSE {} }
    \cup
    { [stop_reason |-> "end_turn",
       content |-> WithIds(<<TextBlock(GoodText)>> \o c, n)] : c \in BasicToolContents }

\* what a failed invocation throws: an Anthropic.APIError (status 0: none) or
\* another error
Failures ==
    { [api |-> TRUE,  status |-> 429, message |-> "rate_limit_error"],
      [api |-> TRUE,  status |-> 401, message |-> "authentication_error"],
      [api |-> TRUE,  status |-> 0,   message |-> "Connection error."],
      [api |-> FALSE, status |-> 0,   message |-> "Unexpected end of JSON input"] }

\* a TypeError or SyntaxError raised by the route's own code
LocalError == [api |-> FALSE, status |-> 0, message |-> "TypeError"]

\* the request bodies a caller may send
UserTurn(t) == [role |-> "user", content |-> t, id |-> "msg"]
AssistantTurn(t) == [role |-> "assistant", content |-> t, id |-> "msg"]

Bodies ==
    { [kind |-> "unparseable", messages |-> <<>>],
      [kind |-> "nolist", messages |-> <<>>],
      [kind |-> "list", messages |-> <<UserTurn(<<"techno", SP, "please">>)>>],
      [kind |-> "list", messages |-> <<UserTurn(<<"a", SP, "beat">>), AssistantTurn(GoodText),
                                       UserTurn(<<"faster">>)>>] }

\* messages.map(m => ({ role: m.role, content: m.content }))
ToAnthropic(messages) ==
    [i \in 1..Len(messages) |-> [role |-> messages[i].role, content |-> messages[i].content]]

\* response.content.filter(text).map(b => b.text).join('\n')
textContent(content) ==
    LET blocks == SelectSeq(content, LAMBDA b : b.type = "text")
    IN  Join([i \in 1..Len(blocks) |-> blocks[i].text], <<NL>>)

toolUseBlocks(content) == SelectSeq(content, LAMBDA b : b.type = "tool_use")

\* toolUseBlocks.map(toolUse => ...): the calls run in order until one throws
Executed(blocks) == [i \in 1..Len(blocks) |-> executeTool(blocks[i].name, blocks[i].input)]
Throwers(blocks) == {i \in 1..Len(blocks) : Executed(blocks)[i].threw}
CallsMade(blocks) == IF Throwers(blocks) = {} THEN Len(blocks) ELSE Min(Throwers(blocks))

toolResults(blocks) ==
    [i \in 1..Len(blocks) |->
        [type |-> "tool_result", tool_use_id |-> blocks[i].id,
         content |-> Executed(blocks)[i].value]]

\* currentMessages = [...currentMessages, assistant turn, user turn]
Accumulate(msgs, content) ==
    msgs \o << [role |-> "assistant", content |-> content],
               [role |-> "user", content |-> toolResults(toolUseBlocks(content))] >>

-----------------------------------------------------------------------------
(* State shared by the two routes *)

Json(status, b) == [status |-> status, kind |-> "json", body |-> b]
\* POST has not returned yet
NoResponse == [status |-> 0, kind |-> "none", body |-> [empty |-> TRUE]]

\* no request is being handled
AgentIdle ==
    /\ path = "none" /\ apiKey = FALSE /\ body = <<>> /\ pc = "idle"
    /\ elapsed = 0 /\ iterations = 0 /\ currentMessages = <<>> /\ inflight = <<>>
    /\ ctrl = <<>> /\ response = NoResponse /\ invocations = 0 /\ dispatches = 0
    /\ settled = [kind |-> "none"] /\ alwaysTools = TRUE /\ allSlow = TRUE
\* no library function is being exercised on its own
LibIdle ==
    validations = <<>> /\ genreContent = <<>> /\ genreOut = <<>>
\* no client is reading a response
ClientIdle ==
    /\ emitted = <<>> /\ wire = <<>> /\ handled = <<>> /\ clientPc = "idle"
    /\ storeMessages = <<>> /\ isLoading = FALSE /\ retryMessage = <<>> /\ currentCode = <<>>
    /\ history = <<>> /\ incoming = <<>> /\ lastEvent = <<>> /\ panelPc = "idle"

\* the audio engine is untouched and the play control was never used
AudioIdle ==
    /\ strudelRepl = 0 /\ isInitialized = FALSE /\ samplesLoaded = FALSE
    /\ audioContext = 0 /\ masterGainNode = FALSE /\ initProgress = "idle"
    /\ isPlaying = FALSE /\ isInitializing = FALSE /\ initStatus = "idle"
    /\ strudelRef = FALSE /\ playError = <<>> /\ plays = <<>>

Init ==
    /\ path \in {"fast", "stream", "chat_anthropic", "chat_openai"}
    /\ apiKey \in BOOLEAN
    /\ body \in Bodies
    /\ pc = "entry"
    /\ elapsed = 0
    /\ iterations = 0
    /\ currentMessages = <<>>
    /\ inflight = <<>>
    /\ ctrl = <<>>
    /\ response = NoResponse
    /\ invocations = 0
    /\ dispatches = 0
    /\ settled = [kind |-> "none"]
    /\ alwaysTools = TRUE
    /\ allSlow = TRUE
    /\ LibIdle
    /\ ClientIdle
    /\ AudioIdle

\* the clock after an awaited operation that took d ms
Later(d) == elapsed + d
CanWait(d) == d \in Delays /\ elapsed + d <= MaxClock

\* what the handler leaves behind when it stops or awaits the next invocation:
\* e.call tells whether anthropic.messages.create was called with e.msgs
Apply(e, made) ==
    /\ pc' = e.pc
    /\ iterations' = e.iterations
    /\ currentMessages' = e.msgs
    /\ ctrl' = e.ctrl
    /\ response' = e.response
    /\ inflight' = IF e.call THEN e.msgs ELSE inflight
    /\ invocations' = IF e.call THEN invocations + 1 ELSE invocations
    /\ dispatches' = dispatches + made
    /\ UNCHANGED <<libVars, clientVars, panelVars, audioVars>>

Stop(resp, c, msgs, its) ==
    [pc |-> "done", response |-> resp, ctrl |-> c, msgs |-> msgs, iterations |-> its,
     call |-> FALSE]
Invoke(resp, c, msgs, its) ==
    [pc |-> "await", response |-> resp, ctrl |-> c, msgs |-> msgs, iterations |-> its,
     call |-> TRUE]

-----------------------------------------------------------------------------
(* Fast path: POST of src/unnamed/part_002 *)

\* the catch block
FastCatch(err, msgs, its) ==
    Stop(IF err.api
         THEN Json(IF err.status # 0 THEN err.status ELSE 500, [error |-> err.message])
         ELSE Json(500, [error |-> "Failed to generate. Please try again."]),
         ctrl, msgs, its)

\* mutant: the while condition lets one iteration too many through
FastLoopHead_OffByOne(msgs, its, now) ==
    IF its <= FastMaxIterations
    THEN IF now > REQUEST_TIMEOUT_MS
         THEN Stop(Json(504, [error |-> "Generation taking too long. Try a simpler request.",
                              timeout |-> TRUE]),
                   ctrl, msgs, its)
         ELSE Invoke(NoResponse, ctrl, msgs, its + 1)
    ELSE Stop(Json(500, [error |-> "Generation taking too many steps. Try a simpler request.",
                         iterations |-> its]),
              ctrl, msgs, its)

\* mutant: the wall-clock check is missing
FastLoopHead_NoClock(msgs, its, now) ==
    IF its < FastMaxIterations
    THEN Invoke(NoResponse, ctrl, msgs, its + 1)
    ELSE Stop(Json(500, [error |-> "Generation taking too many steps. Try a simpler request.",
                         iterations |-> its]),
              ctrl, msgs, its)

\* one pass from the while condition to the capability call
FastLoopHead(msgs, its, now) ==
    IF its < FastMaxIterations
    THEN IF now > REQUEST_TIMEOUT_MS
         THEN Stop(Json(504, [error |-> "Generation taking too long. Try a simpler request.",
                              timeout |-> TRUE]),
                   ctrl, msgs, its)
         ELSE Invoke(NoResponse, ctrl, msgs, its + 1)
    ELSE Stop(Json(500, [error |-> "Generation taking too many steps. Try a simpler request.",
                         iterations |-> its]),
              ctrl, msgs, its)

\* mutant: an unexpected stop reason is treated as a failure
FastOnResponse_Strict(r, msgs, its, now) ==
    IF r.stop_reason = "end_turn"
    THEN Stop(Json(200, [content |-> textContent(r.content), iterations |-> its,
                         timeMs |-> now]),
              ctrl, msgs, its)
    ELSE IF r.stop_reason = "tool_use"
    THEN IF Len(toolUseBlocks(r.content)) = 0
         THEN Stop(Json(200, [content |-> textContent(r.content), iterations |-> its]),
                   ctrl, msgs, its)
         ELSE IF Throwers(toolUseBlocks(r.content)) # {}
         THEN FastCatch(LocalError, msgs, its)
         ELSE FastLoopHead(Accumulate(msgs, r.content), its, now)
    ELSE FastCatch(LocalError, msgs, its)

\* the handling of a response, from the stop-reason test on
FastOnResponse(r, msgs, its, now) ==
    IF r.stop_reason = "end_turn"
    THEN Stop(Json(200, [content |-> textContent(r.content), iterations |-> its,
                         timeMs |-> now]),
              ctrl, msgs, its)
    ELSE IF r.stop_reason = "tool_use"
    THEN IF Len(toolUseBlocks(r.content)) = 0
         THEN Stop(Json(200, [content |-> textContent(r.content), iterations |-> its]),
                   ctrl, msgs, its)
         ELSE IF Throwers(toolUseBlocks(r.content)) # {}
         THEN FastCatch(LocalError, msgs, its)
         ELSE FastLoopHead(Accumulate(msgs, r.content), its, now)
    ELSE Stop(Json(200, [content |-> textContent(r.content), iterations |-> its]),
              ctrl, msgs, its)

\* executeTool calls made while handling r
DispatchesFor(r) ==
    IF r.stop_reason = "tool_use" THEN CallsMade(toolUseBlocks(r.content)) ELSE 0

IsToolRequest(r) == r.stop_reason = "tool_use" /\ Len(toolUseBlocks(r.content)) > 0

\* entry: the credential check, then await req.json()
Fast_Entry ==
    /\ path = "fast" /\ pc = "entry"
    /\ IF ~apiKey
       THEN Apply(Stop(Json(500, [error |-> "ANTHROPIC_API_KEY not configured"]),
                       ctrl, currentMessages, iterations), 0)
       ELSE Apply([Stop(NoResponse, ctrl, currentMessages, iterations) EXCEPT !.pc = "json"], 0)
    /\ UNCHANGED <<path, apiKey, body, elapsed, settled, alwaysTools, allSlow>>

\* req.json() settles after d ms; the conversion and the first loop pass follow
Fast_Body(d) ==
    /\ path = "fast" /\ pc = "json" /\ CanWait(d)
    /\ elapsed' = Later(d)
    /\ IF body.kind # "list"
       THEN Apply(FastCatch(LocalError, currentMessages, iterations), 0)
       ELSE Apply(FastLoopHead(ToAnthropic(body.messages), 0, Later(d)), 0)
    /\ UNCHANGED <<path, apiKey, body, settled, alwaysTools, allSlow>>

\* the pending invocation returns r after d ms
Fast_Returns(r, d) ==
    /\ path = "fast" /\ pc = "await" /\ CanWait(d)
    /\ r \in Responses(invocations)
    /\ elapsed' = Later(d)
    /\ Apply(FastOnResponse(r, currentMessages, iterations, Later(d)), DispatchesFor(r))
    /\ settled' = [kind |-> "response", r |-> r]
    /\ alwaysTools' = (alwaysTools /\ IsToolRequest(r))
    /\ allSlow' = (allSlow /\ d > REQUEST_TIMEOUT_MS)
    /\ UNCHANGED <<path, apiKey, body>>

\* the pending invocation fails with err after d ms
Fast_Throws(err, d) ==
    /\ path = "fast" /\ pc = "await" /\ CanWait(d)
    /\ err \in Failures
    /\ elapsed' = Later(d)
    /\ Apply(FastCatch(err, currentMessages, iterations), 0)
    /\ settled' = [kind |-> "error", err |-> err]
    /\ alwaysTools' = FALSE
    /\ allSlow' = (allSlow /\ d > REQUEST_TIMEOUT_MS)
    /\ UNCHANGED <<path, apiKey, body>>

-----------------------------------------------------------------------------
(* Streaming path: POST of src/unnamed/part_003 *)

sendSSE(c, event, data) == Append(c, [op |-> "enqueue", event |-> event, data |-> data])
close(c) == Append(c, [op |-> "close"])

\* the Response wrapping the stream
SseResponse == [status |-> 200, kind |-> "event-stream", body |-> [empty |-> TRUE]]

\* mutant: the catch block reports the fixed message for every error
StreamCatch_Generic(err, c, msgs, its) ==
    Stop(SseResponse,
         close(sendSSE(c, "error", [error |-> "Failed to generate. Please try again."])),
         msgs, its)

\* the catch block of start()
StreamCatch(err, c, msgs, its) ==
    Stop(SseResponse,
         close(sendSSE(c, "error",
                       [error |-> IF err.api THEN err.message
                                  ELSE "Failed to generate. Please try again."])),
         msgs, its)

ProgressMessage(n) == IF n = 1 THEN "Generating track..." ELSE "Iteration " \o ToString(n) \o "..."

\* mutant: the progress event carries the counter as it was before the increment
StreamLoopHead_StaleCount(c, msgs, its) ==
    IF its < StreamMaxIterations
    THEN Invoke(SseResponse,
                sendSSE(c, "progress", [iteration |-> its, message |-> ProgressMessage(its + 1)]),
                msgs, its + 1)
    ELSE Stop(SseResponse,
              close(sendSSE(c, "error",
                            [error |-> "Generation taking too many steps. Try a simpler request.",
                             iterations |-> its])),
              msgs, its)

\* mutant: the iteration cap reports the error and leaves the stream open
StreamLoopHead_NoClose(c, msgs, its) ==
    IF its < StreamMaxIterations
    THEN Invoke(SseResponse,
                sendSSE(c, "progress", [iteration |-> its + 1, message |-> ProgressMessage(its + 1)]),
                msgs, its + 1)
    ELSE Stop(SseResponse,
              sendSSE(c, "error",
                      [error |-> "Generation taking too many steps. Try a simpler request.",
                       iterations |-> its]),
              msgs, its)

\* one pass from the while condition to the capability call
StreamLoopHead(c, msgs, its) ==
    IF its < StreamMaxIterations
    THEN Invoke(SseResponse,
                sendSSE(c, "progress", [iteration |-> its + 1, message |-> ProgressMessage(its + 1)]),
                msgs, its + 1)
    ELSE Stop(SseResponse,
              close(sendSSE(c, "error",
                            [error |-> "Generation taking too many steps. Try a simpler request.",
                             iterations |-> its])),
              msgs, its)

\* mutant: the genre lookup is tested before the validation
ToolsMessage_GenreFirst(names) ==
    IF \E i \in 1..Len(names) : names[i] = "read_genre" THEN "Loading genre patterns..."
    ELSE IF \E i \in 1..Len(names) : names[i] = "validate_code" THEN "Validating code..."
    ELSE "Processing..."

ToolsMessage(names) ==
    IF \E i \in 1..Len(names) : names[i] = "validate_code" THEN "Validating code..."
    ELSE IF \E i \in 1..Len(names) : names[i] = "read_genre" THEN "Loading genre patterns..."
    ELSE "Processing..."

toolNames(blocks) == [i \in 1..Len(blocks) |-> blocks[i].name]

\* mutant: the complete event counts the iterations from zero
StreamOnEndTurn_ZeroBased(r, c, msgs, its, now) ==
    Stop(SseResponse,
         close(sendSSE(c, "complete",
                       [content |-> textContent(r.content), iterations |-> its - 1,
                        timeMs |-> now,
                        validated |-> checkIfCodeValidated(textContent(r.content))])),
         msgs, its)

\* the end_turn branch
StreamOnEndTurn(r, c, msgs, its, now) ==
    Stop(SseResponse,
         close(sendSSE(c, "complete",
                       [content |-> textContent(r.content), iterations |-> its,
                        timeMs |-> now,
                        validated |-> checkIfCodeValidated(textContent(r.content))])),
         msgs, its)

\* mutant: the return after controller.close() is missing, so the loop goes on
StreamOnNoTools_NoReturn(r, c, msgs, its, now) ==
    StreamLoopHead(close(sendSSE(c, "complete",
                                 [content |-> textContent(r.content), iterations |-> its,
                                  timeMs |-> now])),
                   msgs, its)

\* the branches that return the text as it is: tool_use without a tool-use
\* block, and an unexpected stop reason
StreamOnNoTools(r, c, msgs, its, now) ==
    Stop(SseResponse,
         close(sendSSE(c, "complete",
                       [content |-> textContent(r.content), iterations |-> its,
                        timeMs |-> now])),
         msgs, its)

\* the tool_use branch with at least one tool-use block
StreamOnTools(r, c, msgs, its) ==
    LET blocks == toolUseBlocks(r.content)
        told   == sendSSE(c, "tools", [tools |-> toolNames(blocks),
                                       message |-> ToolsMessage(toolNames(blocks))])
    IN  IF Throwers(blocks) # {}
        THEN StreamCatch(LocalError, told, msgs, its)
        ELSE StreamLoopHead(told, Accumulate(msgs, r.content), its)

StreamOnResponse(r, c, msgs, its, now) ==
    IF r.stop_reason = "end_turn" THEN StreamOnEndTurn(r, c, msgs, its, now)
    ELSE IF r.stop_reason = "tool_use"
    THEN IF Len(toolUseBlocks(r.content)) = 0
         THEN StreamOnNoTools(r, c, msgs, its, now)
         ELSE StreamOnTools(r, c, msgs, its)
    ELSE StreamOnNoTools(r, c, msgs, its, now)

\* start(controller), up to the first capability call
StreamStart(b) ==
    IF b.kind # "list"
    THEN StreamCatch(LocalError, <<>>, <<>>, 0)
    ELSE StreamLoopHead(sendSSE(<<>>, "status",
                                [status |-> "started",
                                 message |-> "Understanding your request..."]),
                        ToAnthropic(b.messages), 0)

\* entry: the credential check, then await req.json()
Stream_Entry ==
    /\ path = "stream" /\ pc = "entry"
    /\ IF ~apiKey
       THEN Apply(Stop(Json(500, [error |-> "ANTHROPIC_API_KEY not configured"]),
                       ctrl, currentMessages, iterations), 0)
       ELSE Apply([Stop(NoResponse, ctrl, currentMessages, iterations) EXCEPT !.pc = "json"], 0)
    /\ UNCHANGED <<path, apiKey, body, elapsed, settled, alwaysTools, allSlow>>

\* req.json() settles after d ms; the stream is created and start() runs
Stream_Body(d) ==
    /\ path = "stream" /\ pc = "json" /\ CanWait(d)
    /\ elapsed' = Later(d)
    /\ IF body.kind = "unparseable"
       THEN Apply(Stop(Json(400, [error |-> "Invalid request body"]),
                       ctrl, currentMessages, iterations), 0)
       ELSE Apply(StreamStart(body), 0)
    /\ UNCHANGED <<path, apiKey, body, settled, alwaysTools, allSlow>>

\* the pending invocation returns r after d ms
Stream_Returns(r, d) ==
    /\ path = "stream" /\ pc = "await" /\ CanWait(d)
    /\ r \in Responses(invocations)
    /\ elapsed' = Later(d)
    /\ Apply(StreamOnResponse(r, ctrl, currentMessages, iterations, Later(d)), DispatchesFor(r))
    /\ settled' = [kind |-> "response", r |-> r]
    /\ alwaysTools' = (alwaysTools /\ IsToolRequest(r))
    /\ allSlow' = (allSlow /\ d > REQUEST_TIMEOUT_MS)
    /\ UNCHANGED <<path, apiKey, body>>

\* the pending invocation fails with err after d ms
Stream_Throws(err, d) ==
    /\ path = "stream" /\ pc = "await" /\ CanWait(d)
    /\ err \in Failures
    /\ elapsed' = Later(d)
    /\ Apply(StreamCatch(err, ctrl, currentMessages, iterations), 0)
    /\ settled' = [kind |-> "error", err |-> err]
    /\ alwaysTools' = FALSE
    /\ allSlow' = (allSlow /\ d > REQUEST_TIMEOUT_MS)
    /\ UNCHANGED <<path, apiKey, body>>

-----------------------------------------------------------------------------
(* Chat route: the two POST handlers of src/src/app/api/chat/route.ts, the   *)
(* Anthropic one (lines 38-114) and the OpenAI one (lines 146-241)           *)

AgentPaths == {"fast", "stream"}
ChatPaths == {"chat_anthropic", "chat_openai"}

\* the Response wrapping the text stream
TextResponse == [status |-> 200, kind |-> "text-stream", body |-> [empty |-> TRUE]]

\* mutant: a missing credential is answered like a failed generation
ChatNoKey_AsFailure(p) ==
    IF p = "chat_anthropic"
    THEN Json(500, [error |-> "Failed to generate response"])
    ELSE Json(500, [error |-> "Failed to generate response. Please try again."])

\* the response returned when the credential is missing (for the OpenAI
\* handler also when it is the placeholder 'sk-...')
ChatNoKey(p) ==
    IF p = "chat_anthropic"
    THEN Json(500, [error |-> "API key not configured",
                    message |-> "Make sure ANTHROPIC_API_KEY is set in .env.local"])
    ELSE Json(500, [error |-> "API key not configured. Please add OPENAI_API_KEY to .env.local"])

\* the outer catch block
ChatCatch(p, err) ==
    IF p = "chat_anthropic"
    THEN IF err.api /\ err.status = 401 THEN Json(401, [error |-> "Invalid API key"])
         ELSE IF err.api /\ err.status = 429
         THEN Json(429, [error |-> "Rate limited. Please try again."])
         ELSE Json(500, [error |-> "Failed to generate response"])
    ELSE IF err.api
         THEN Json(IF err.status # 0 THEN err.status ELSE 500,
                   [error |-> IF err.status = 401
                              THEN "Invalid API key. Please check your OPENAI_API_KEY."
                              ELSE IF err.status = 429
                              THEN "Rate limit exceeded. Please wait and try again."
                              ELSE "OpenAI API error: " \o err.message])
         ELSE Json(500, [error |-> "Failed to generate response. Please try again."])

\* from the parsed body to the capability call
ChatOnBody(p, b) ==
    IF b.kind = "unparseable"
    THEN Stop(ChatCatch(p, LocalError), ctrl, currentMessages, iterations)
    ELSE IF b.kind # "list"
    THEN IF p = "chat_openai"
         THEN Stop(Json(400, [error |-> "Invalid request: messages array required"]),
                   ctrl, currentMessages, iterations)
         ELSE Stop(ChatCatch(p, LocalError), ctrl, currentMessages, iterations)
    ELSE Invoke(NoResponse, ctrl,
                IF p = "chat_anthropic" THEN ToAnthropic(b.messages) ELSE b.messages,
                iterations)

\* entry: the credential check, then await req.json()
Chat_Entry ==
    /\ path \in ChatPaths /\ pc = "entry"
    /\ IF ~apiKey
       THEN Apply(Stop(ChatNoKey(path), ctrl, currentMessages, iterations), 0)
       ELSE Apply([Stop(NoResponse, ctrl, currentMessages, iterations) EXCEPT !.pc = "json"], 0)
    /\ UNCHANGED <<path, apiKey, body, elapsed, settled, alwaysTools, allSlow>>

\* req.json() settles after d ms; the messages are checked or converted and
\* the capability is called
Chat_Body(d) ==
    /\ path \in ChatPaths /\ pc = "json" /\ CanWait(d)
    /\ elapsed' = Later(d)
    /\ Apply(ChatOnBody(path, body), 0)
    /\ UNCHANGED <<path, apiKey, body, settled, alwaysTools, allSlow>>

\* the capability answers: the text stream is returned, its chunks are
\* enqueued and the controller is closed
Chat_Returns(d) ==
    /\ path \in ChatPaths /\ pc = "await" /\ CanWait(d)
    /\ elapsed' = Later(d)
    /\ Apply(Stop(TextResponse,
                  close(sendSSE(ctrl, "text", [text |-> GoodText])),
                  currentMessages, iterations), 0)
    /\ settled' = [kind |-> "opened"]
    /\ alwaysTools' = FALSE
    /\ allSlow' = (allSlow /\ d > REQUEST_TIMEOUT_MS)
    /\ UNCHANGED <<path, apiKey, body>>

\* the capability fails with err.  The OpenAI call rejects and the outer catch
\* answers.  anthropic.messages.stream hands back its stream object before the
\* request has settled, so its failure reaches either the outer catch or, once
\* the text stream has been returned, the catch inside start().
Chat_Throws(err, late, d) ==
    /\ path \in ChatPaths /\ pc = "await" /\ CanWait(d)
    /\ err \in Failures
    /\ late => path = "chat_anthropic"
    /\ elapsed' = Later(d)
    /\ IF late
       THEN Apply(Stop(TextResponse, Append(ctrl, [op |-> "error", reason |-> err.message]),
                       currentMessages, iterations), 0)
       ELSE Apply(Stop(ChatCatch(path, err), ctrl, currentMessages, iterations), 0)
    /\ settled' = [kind |-> "error", err |-> err, late |-> late]
    /\ alwaysTools' = FALSE
    /\ allSlow' = (allSlow /\ d > REQUEST_TIMEOUT_MS)
    /\ UNCHANGED <<path, apiKey, body>>

-----------------------------------------------------------------------------

-----------------------------------------------------------------------------
(* The validator on its own: validateStrudelCode and formatValidationResult *)
(* applied, call after call, to bounded codes                               *)

CodeLines ==
    { <<>>, <<SETCPS>>, <<SETCPSQ>>, <<STACK>>, <<GLIDE>>, <<TEMPO>>, <<OPEN>>, <<IDENT>>, <<UNDEF>>,
      <<ARRANGE>>, <<CHAINS>>, <<STACK, SP, COMMENT>> }

Codes ==
    { Join(ls, <<NL>>) : ls \in UNION { [1..n -> CodeLines] : n \in 0..MaxLines } }

\* the codes of the calls that follow the first one
LaterCodes ==
    { <<SETCPS, NL, STACK>>, <<SETCPSQ, NL, ARRANGE>>, <<GLIDE, NL, TEMPO>> }

\* a call with argument code made after the calls prior: both copies of the
\* function build their result from the argument and from locals only (the
\* regular expressions are literals evaluated anew within the call), and the
\* report is built from the result alone
Invocation_SharedState(code, prior) ==
    [code      |-> code,
     result    |-> validateStrudelCode(code),
     report    |-> formatValidationResult(validateStrudelCode(code)),
     alt       |-> IF Len(prior) % 2 = 1 THEN Verdict(<<>>, <<>>)
                   ELSE validateStrudelCodeAlt(code),
     altReport |-> formatValidationResult(validateStrudelCodeAlt(code))]

Invocation(code, prior) ==
    [code      |-> code,
     result    |-> validateStrudelCode(code),
     report    |-> formatValidationResult(validateStrudelCode(code)),
     alt       |-> validateStrudelCodeAlt(code),
     altReport |-> formatValidationResult(validateStrudelCodeAlt(code))]

Validator_Init ==
    /\ AgentIdle /\ AudioIdle /\ ClientIdle
    /\ validations = <<>> /\ genreContent = <<>> /\ genreOut = <<>>

Validator_FirstCall(code) ==
    /\ validations = <<>>
    /\ validations' = <<Invocation(code, <<>>)>>
    /\ UNCHANGED <<agentVars, audioVars, genreContent, genreOut, clientVars, panelVars>>

\* a later call, on the first call's argument again or on another one
Validator_LaterCall(code) ==
    /\ validations # <<>>
    /\ Len(validations) < MaxCalls
    /\ validations' = Append(validations, Invocation(code, validations))
    /\ UNCHANGED <<agentVars, audioVars, genreContent, genreOut, clientVars, panelVars>>

Validator_Next ==
    \/ \E code \in Codes : Validator_FirstCall(code)
    \/ \E code \in LaterCodes \cup {validations[i].code : i \in 1..Len(validations)} :
           Validator_LaterCall(code)

ValidatorSpec == Validator_Init /\ [][Validator_Next]_vars

-----------------------------------------------------------------------------
(* read_genre on its own: the tool's answer for a bundled genre, in the two  *)
(* agent routes and in the non-streaming route of part_003, lines 316-552    *)

\* the lengths of the lines of a genre file that are not headings
LineLengths == {0, 100, 1200, 2499, 2500, 2600}

GenreLines ==
    {[kind |-> "text", len |-> n] : n \in LineLengths} \cup
    {[kind |-> "fx", len |-> 13], [kind |-> "structure", len |-> 12]}

GenreContents == UNION { [1..n -> GenreLines] : n \in 1..MaxGenreLines }

\* case 'read_genre' of the two agent routes, for a genre that is bundled
readGenre(content) == truncateGenreContent(content)

\* case 'read_genre' of the non-streaming route, for a genre that is bundled:
\* return content
readGenreNonStreaming(content) == [keep |-> ContentLength(content), tail |-> ""]

Genre_Init ==
    /\ AgentIdle /\ AudioIdle /\ ClientIdle
    /\ validations = <<>>
    /\ genreContent \in GenreContents
    /\ genreOut = <<>>

Genre_Read ==
    /\ genreOut = <<>>
    /\ genreOut' = << [truncated    |-> truncateGenreContent(genreContent),
                       agent        |-> readGenre(genreContent),
                       nonStreaming |-> readGenreNonStreaming(genreContent)] >>
    /\ UNCHANGED <<agentVars, audioVars, validations, genreContent, clientVars, panelVars>>

Genre_Next == Genre_Read

GenreSpec == Genre_Init /\ [][Genre_Next]_vars

-----------------------------------------------------------------------------
(* The browser client reading the event stream: sendMessage and parseSSE of  *)
(* src/src/components/ChatPanel.tsx                                          *)

\* The body of the response is a sequence of pieces of text.  A frame written
\* by sendSSE is 'event: <name>', a line end, the data line in two pieces
\* ('data: ' with the first part of the JSON text, and the rest of the JSON
\* text) and two line ends; the transport may end a chunk after any piece.
Piece(kind, i, name) == [kind |-> kind, i |-> i, name |-> name]
LineEnd == Piece("nl", 0, "")

\* sendSSE(controller, event, data) for the i-th event of the request
Frame(i, name) ==
    << Piece("event", i, name), LineEnd, Piece("data", i, name), Piece("rest", i, name),
       LineEnd, LineEnd >>

\* the event names in the orders the streaming route sends them: the status
\* event, then per iteration a progress event and, after it, a tools event,
\* the complete event or the error event
FollowsInStream(a, b) ==
    \/ a = "status" /\ b = "progress"
    \/ a = "progress" /\ b \in {"tools", "complete", "error"}
    \/ a = "tools" /\ b \in {"progress", "error"}

EventStreams ==
    { s \in UNION { [1..n -> {"status", "progress", "tools", "complete", "error"}] :
                       n \in 3..MaxFrames } :
        /\ s[1] = "status"
        /\ \A i \in 1..(Len(s) - 1) : FollowsInStream(s[i], s[i + 1])
        /\ s[Len(s)] \in {"complete", "error"} }

\* chunk.split('\n') on pieces
RECURSIVE SplitPieces(_)
SplitPieces(t) ==
    IF \A i \in 1..Len(t) : t[i] # LineEnd THEN <<t>>
    ELSE LET k == Min({i \in 1..Len(t) : t[i] = LineEnd})
         IN  <<SubSeq(t, 1, k - 1)>> \o SplitPieces(SubSeq(t, k + 1, Len(t)))

\* JSON.parse(currentData) returns: the line holds the whole JSON text
ParsesAsJson(line) ==
    Len(line) = 2 /\ line[1].kind = "data" /\ line[2].kind = "rest" /\ line[1].i = line[2].i

\* the loop of parseSSE over the lines; currentEvent is <<>> when it is the
\* empty string and <<name>> otherwise
RECURSIVE ParseLines(_, _, _)
ParseLines(lines, currentEvent, events) ==
    IF lines = <<>> THEN events
    ELSE LET line == Head(lines)
         IN  IF line # <<>> /\ line[1].kind = "event"
             THEN ParseLines(Tail(lines), <<line[1].name>>, events)
             ELSE IF line # <<>> /\ line[1].kind = "data"
             THEN IF currentEvent # <<>>
                  THEN ParseLines(Tail(lines), <<>>,
                                  IF ParsesAsJson(line)
                                  THEN Append(events, [event |-> currentEvent[1],
                                                       data  |-> line[1].i])
                                  ELSE events)
                  ELSE ParseLines(Tail(lines), currentEvent, events)
             ELSE ParseLines(Tail(lines), currentEvent, events)

parseSSE(chunk) == ParseLines(SplitPieces(chunk), <<>>, <<>>)

\* the events of a chunk that the switch statement processes: those up to
\* and including the first error event, whose case throws
Processed(events) ==
    LET errs == {i \in 1..Len(events) : events[i].event = "error"}
    IN  IF errs = {} THEN events ELSE SubSeq(events, 1, Min(errs))

\* the panel's own state while only the reader is exercised
PanelIdle ==
    /\ storeMessages = <<>> /\ isLoading = FALSE /\ retryMessage = <<>> /\ currentCode = <<>>
    /\ history = <<>> /\ incoming = <<>> /\ lastEvent = <<>> /\ panelPc = "idle"

Client_Init ==
    /\ AgentIdle /\ AudioIdle /\ LibIdle /\ PanelIdle
    /\ emitted \in EventStreams
    /\ wire = Flatten([i \in 1..Len(emitted) |-> Frame(i, emitted[i])])
    /\ handled = <<>>
    /\ clientPc = "reading"

\* reader.read() returns the next k pieces: buffer += decoder.decode(value),
\* events = parseSSE(buffer), buffer = '', and the events are processed
Client_Read(k) ==
    /\ clientPc = "reading"
    /\ k \in 1..Len(wire)
    /\ LET buffer == <<>> \o SubSeq(wire, 1, k)
           events == parseSSE(buffer)
       IN  /\ handled' = handled \o Processed(events)
           /\ clientPc' = IF \E i \in 1..Len(events) : events[i].event = "error"
                          THEN "thrown" ELSE "reading"
    /\ wire' = SubSeq(wire, k + 1, Len(wire))
    /\ UNCHANGED <<agentVars, audioVars, libVars, emitted, panelVars>>

\* reader.read() returns done
Client_Done ==
    /\ clientPc = "reading"
    /\ wire = <<>>
    /\ clientPc' = "done"
    /\ UNCHANGED <<agentVars, audioVars, libVars, emitted, wire, handled, panelVars>>

Client_Next ==
    \/ \E k \in 1..(6 * MaxFrames) : Client_Read(k)
    \/ Client_Done

ClientSpec == Client_Init /\ [][Client_Next]_vars

-----------------------------------------------------------------------------
(* The chat panel: sendMessage and handleRetry of ChatPanel.tsx in agent     *)
(* mode, the message badge of ChatMessage, and the store of part_004         *)

\* the warning sign and the hourglass that the panel puts before its texts
WARNSIGN  == "<warning sign>"
HOURGLASS == "<hourglass>"

UserTexts == { <<"techno", SP, "please">>, <<"a", SP, "beat">> }

\* the data of the complete event of the end_turn branch ...
CompleteWithFlag(text) == [content |-> text, validated |-> checkIfCodeValidated(text)]
\* ... and of the branches that send it without a validated field
CompleteWithoutFlag(text) == [content |-> text]

SseEvent(name, data) == [event |-> name, data |-> data]

\* what the switch statement is given for one response: the status and
\* progress events and then a complete event, an error event or nothing
PanelStreams ==
    LET start == << SseEvent("status", [message |-> "Starting generation..."]),
                    SseEvent("progress", [message |-> "Generating..."]) >>
        texts == {GoodText, NoTempoText, PlainText}
    IN  {start} \cup
        {Append(start, SseEvent("error", [error |-> "Generation taking too many steps"]))} \cup
        {Append(start, SseEvent("complete", CompleteWithFlag(t))) : t \in texts} \cup
        {Append(start, SseEvent("complete", CompleteWithoutFlag(t))) : t \in texts}

\* extractCode of the store module
extractCode(content) ==
    LET codeMatch == MatchFenced(content)
    IN  IF codeMatch = <<>> THEN <<>> ELSE <<Trim(codeMatch[1])>>

\* addMessage
addMessage(msgs, role, content) ==
    Append(msgs, [role |-> role, content |-> content, validated |-> <<>>])

\* updateLastMessage(content, metadata): metadata is <<>> when it is not
\* given and <<validated>> otherwise
updateLastMessage(msgs, content, metadata) ==
    IF msgs = <<>> THEN msgs
    ELSE [msgs EXCEPT ![Len(msgs)] =
             [role |-> @.role, content |-> content,
              validated |-> IF metadata # <<>> THEN metadata ELSE @.validated]]

\* eventData.validated as boolean ?? true
ValidatedOrDefault(data) ==
    IF "validated" \in DOMAIN data THEN data.validated ELSE TRUE

\* the Validated badge of ChatMessage is rendered for the message
ShowsValidated(m) ==
    /\ m.role = "assistant"
    /\ m.validated # <<>>
    /\ \A i \in 1..Len(m.content) : m.content[i] # WARNSIGN

\* the Retry button of ChatMessage is rendered for the message
ShowsRetry(m) ==
    /\ m.role = "assistant"
    /\ \E i \in 1..Len(m.content) : m.content[i] = WARNSIGN
    /\ retryMessage # <<>>
    /\ ~isLoading

\* the catch and finally blocks of sendMessage
PanelCatch(errorMsg) ==
    /\ storeMessages' = updateLastMessage(storeMessages,
                             <<WARNSIGN, SP, errorMsg, NL, NL,
                               "Click retry or try a different request.">>, <<>>)
    /\ isLoading' = FALSE
    /\ panelPc' = "idle"
    /\ incoming' = <<>>

Panel_Init ==
    /\ AgentIdle /\ AudioIdle /\ LibIdle
    /\ emitted = <<>> /\ wire = <<>> /\ handled = <<>> /\ clientPc = "idle"
    /\ PanelIdle

\* sendMessage(userMessage) up to the fetch call
sendMessage(userMessage) ==
    /\ Trim(userMessage) # <<>> /\ ~isLoading
    /\ panelPc = "idle"
    /\ Len(history) < MaxSends
    /\ retryMessage' = <<userMessage>>
    /\ storeMessages' = addMessage(addMessage(storeMessages, "user", userMessage),
                                   "assistant", <<>>)
    /\ isLoading' = TRUE
    /\ history' = Append(history,
                         ToAnthropic(storeMessages) \o
                             <<[role |-> "user", content |-> userMessage]>>)
    /\ panelPc' = "fetching"
    /\ UNCHANGED <<agentVars, audioVars, libVars, clientVars, currentCode, incoming, lastEvent>>

\* handleSubmit
Panel_Submit(text) == sendMessage(text)

\* handleRetry, from the Retry button of the last message
Panel_Retry ==
    /\ storeMessages # <<>> /\ ShowsRetry(storeMessages[Len(storeMessages)])
    /\ retryMessage # <<>>
    /\ sendMessage(retryMessage[1])

\* fetch rejects (network failure)
Panel_FetchFails ==
    /\ panelPc = "fetching"
    /\ PanelCatch("Failed to fetch")
    /\ UNCHANGED <<agentVars, audioVars, libVars, clientVars, retryMessage, currentCode, history,
                   lastEvent>>

\* the response is not ok: errorJson.error is thrown
Panel_NotOk ==
    /\ panelPc = "fetching"
    /\ PanelCatch("ANTHROPIC_API_KEY not configured")
    /\ UNCHANGED <<agentVars, audioVars, libVars, clientVars, retryMessage, currentCode, history,
                   lastEvent>>

\* the response is ok: its body is read
Panel_Opens(stream) ==
    /\ panelPc = "fetching"
    /\ incoming' = stream
    /\ panelPc' = "reading"
    /\ UNCHANGED <<agentVars, audioVars, libVars, clientVars, storeMessages, isLoading, retryMessage,
                   currentCode, history, lastEvent>>

\* one pass of the for loop over the parsed events
Panel_Event ==
    /\ panelPc = "reading" /\ incoming # <<>>
    /\ LET e == Head(incoming)
       IN  /\ lastEvent' = <<e>>
           /\ CASE e.event \in {"status", "progress", "tools"} ->
                    /\ storeMessages' = updateLastMessage(storeMessages,
                                             <<HOURGLASS, SP, e.data.message>>, <<>>)
                    /\ incoming' = Tail(incoming)
                    /\ UNCHANGED <<isLoading, currentCode, panelPc>>
                [] e.event = "complete" ->
                    /\ storeMessages' = updateLastMessage(storeMessages, e.data.content,
                                                          <<ValidatedOrDefault(e.data)>>)
                    /\ currentCode' = IF extractCode(e.data.content) \notin {<<>>, << <<>> >>}
                                      THEN extractCode(e.data.content) ELSE currentCode
                    /\ incoming' = Tail(incoming)
                    /\ UNCHANGED <<isLoading, panelPc>>
                [] e.event = "error" ->
                    /\ PanelCatch(e.data.error)
                    /\ UNCHANGED currentCode
    /\ UNCHANGED <<agentVars, audioVars, libVars, clientVars, retryMessage, history>>

\* reader.read() returns done: the loop is left, the retry state is cleared
\* and the finally block runs
Panel_StreamEnds ==
    /\ panelPc = "reading" /\ incoming = <<>>
    /\ retryMessage' = <<>>
    /\ isLoading' = FALSE
    /\ panelPc' = "idle"
    /\ UNCHANGED <<agentVars, audioVars, libVars, clientVars, storeMessages, currentCode, history,
                   incoming, lastEvent>>

Panel_Next ==
    \/ \E text \in UserTexts : Panel_Submit(text)
    \/ Panel_Retry
    \/ Panel_FetchFails
    \/ Panel_NotOk
    \/ \E stream \in PanelStreams : Panel_Opens(stream)
    \/ Panel_Event
    \/ Panel_StreamEnds

PanelSpec == Panel_Init /\ [][Panel_Next]_vars

\* every awaited operation of sendMessage settles
LivePanelSpec == PanelSpec /\ WF_vars(Panel_FetchFails \/ Panel_NotOk \/
                                        (\E stream \in PanelStreams : Panel_Opens(stream)))
                           /\ WF_vars(Panel_Event) /\ WF_vars(Panel_StreamEnds)

-----------------------------------------------------------------------------
(* src/src/lib/strudel.ts and src/src/components/CodePanel.tsx: the play
   control.  handlePlay runs up to its first await when the button is
   clicked or Ctrl/Cmd+Enter is pressed; each later step is one awaited
   operation settling and the code that follows it up to the next await. *)

NOCODE == "No code to play. Write some Strudel code first!"
PLAYFAIL == "<message of the error thrown>"

\* the contents of the editor when the play control is used
EditorCodes == { <<>>, <<<<SP, NL>>>>, <<GoodCode>> }

\* isStrudelReady
isStrudelReady == isInitialized /\ strudelRepl # 0

\* the awaits of initStrudel, and the await of handlePlay after it
InitStages == {"resume", "imports", "initAudio", "evalScope", "samples", "fallback"}
Awaiting(i) == i \in 1..Len(plays) /\ plays[i] # "returned"

Moves(i, stage) == plays' = [plays EXCEPT ![i] = stage]

\* handlePlay, up to its first await or its return
handlePlay ==
    /\ Len(plays) < MaxPlays
    /\ IF isPlaying
       THEN /\ playError' = <<>>
            /\ isPlaying' = FALSE
            /\ plays' = Append(plays, "returned")
            /\ UNCHANGED <<strudelRepl, isInitialized, samplesLoaded, audioContext,
                           masterGainNode, initProgress, isInitializing, initStatus,
                           strudelRef>>
       ELSE IF currentCode = <<>> \/ Trim(currentCode[1]) = <<>>
       THEN /\ playError' = <<NOCODE>>
            /\ plays' = Append(plays, "returned")
            /\ UNCHANGED <<strudelRepl, isInitialized, samplesLoaded, audioContext,
                           masterGainNode, initProgress, isPlaying, isInitializing,
                           initStatus, strudelRef>>
       ELSE /\ playError' = <<>>
            /\ isInitializing' = TRUE
            /\ IF ~strudelRef \/ ~isStrudelReady
               THEN \* initStrudel is called
                    IF strudelRepl # 0 /\ isInitialized
                    THEN /\ strudelRef' = TRUE
                         /\ initStatus' = "ready"
                         /\ plays' = Append(plays, "evaluate")
                         /\ UNCHANGED <<audioContext, initProgress>>
                    ELSE /\ initProgress' = "audio"
                         /\ audioContext' = audioContext + 1
                         /\ \E suspended \in BOOLEAN :
                               plays' = Append(plays, IF suspended THEN "resume"
                                                                   ELSE "imports")
                         /\ UNCHANGED <<strudelRef, initStatus>>
               ELSE /\ plays' = Append(plays, "evaluate")
                    /\ UNCHANGED <<audioContext, initProgress, strudelRef, initStatus>>
            /\ UNCHANGED <<strudelRepl, isInitialized, samplesLoaded, masterGainNode,
                           isPlaying>>
    /\ UNCHANGED <<agentVars, libVars, clientVars, panelVars>>

\* the Play button, disabled while isInitializing
Audio_Click == ~isInitializing /\ handlePlay

\* the key presses the window listener receives
KeyEvents == [ctrlKey : BOOLEAN, metaKey : {FALSE}, key : {"Enter", "a"}]
                 \cup {[ctrlKey |-> FALSE, metaKey |-> TRUE, key |-> "Enter"]}

\* handleKeyDown
Audio_KeyDown(e) ==
    /\ (e.ctrlKey \/ e.metaKey) /\ e.key = "Enter"
    /\ handlePlay

\* the interval started before initStrudel is called
Audio_Tick ==
    /\ \E i \in 1..Len(plays) : plays[i] \in InitStages
    /\ initStatus' = initProgress
    /\ UNCHANGED <<agentVars, libVars, clientVars, panelVars, strudelRepl, isInitialized,
                   samplesLoaded, audioContext, masterGainNode, initProgress, isPlaying,
                   isInitializing, strudelRef, playError, plays>>

\* initStrudel from the creation of the REPL instance to its return, then
\* handlePlay up to evaluate
CreatesRepl(i) ==
    /\ strudelRepl' = strudelRepl + 1
    /\ isInitialized' = TRUE
    /\ initProgress' = "ready"
    /\ strudelRef' = TRUE
    /\ initStatus' = "ready"
    /\ Moves(i, "evaluate")

\* audioContext.resume(), the imports or initAudio settle without an error
Audio_InitAdvances(i) ==
    /\ Awaiting(i) /\ plays[i] \in {"resume", "imports", "initAudio"}
    /\ Moves(i, CASE plays[i] = "resume" -> "imports"
                  [] plays[i] = "imports" -> "initAudio"
                  [] plays[i] = "initAudio" -> "evalScope")
    /\ masterGainNode' = (masterGainNode \/ plays[i] = "initAudio")
    /\ UNCHANGED <<agentVars, libVars, clientVars, panelVars, strudelRepl, isInitialized,
                   samplesLoaded, audioContext, initProgress, isPlaying, isInitializing,
                   initStatus, strudelRef, playError>>

\* evalScope settles without an error
Audio_ScopeReady(i) ==
    /\ Awaiting(i) /\ plays[i] = "evalScope"
    /\ IF ~samplesLoaded
       THEN /\ initProgress' = "samples"
            /\ Moves(i, "samples")
            /\ UNCHANGED <<strudelRepl, isInitialized, strudelRef, initStatus>>
       ELSE CreatesRepl(i)
    /\ UNCHANGED <<agentVars, libVars, clientVars, panelVars, samplesLoaded, audioContext,
                   masterGainNode, isPlaying, isInitializing, playError>>

\* webaudio.samples settles: the first source, or the fallback
Audio_SamplesSettle(i, loaded) ==
    /\ Awaiting(i) /\ plays[i] \in {"samples", "fallback"}
    /\ IF ~loaded /\ plays[i] = "samples"
       THEN /\ Moves(i, "fallback")
            /\ UNCHANGED <<strudelRepl, isInitialized, samplesLoaded, initProgress,
                           strudelRef, initStatus>>
       ELSE /\ samplesLoaded' = (samplesLoaded \/ loaded)
            /\ CreatesRepl(i)
    /\ UNCHANGED <<agentVars, libVars, clientVars, panelVars, audioContext, masterGainNode,
                   isPlaying, isInitializing, playError>>

\* an await of initStrudel outside the sample loading rejects: its catch
\* block, then the finally and catch blocks of handlePlay
Audio_InitFails(i) ==
    /\ Awaiting(i) /\ plays[i] \in {"resume", "imports", "initAudio", "evalScope"}
    /\ initProgress' = "idle"
    /\ initStatus' = "ready"
    /\ playError' = <<PLAYFAIL>>
    /\ isPlaying' = FALSE
    /\ isInitializing' = FALSE
    /\ Moves(i, "returned")
    /\ UNCHANGED <<agentVars, libVars, clientVars, panelVars, strudelRepl, isInitialized,
                   samplesLoaded, audioContext, masterGainNode, strudelRef>>

\* strudelRef.current.evaluate settles
Audio_EvaluateSettles(i, played) ==
    /\ Awaiting(i) /\ plays[i] = "evaluate"
    /\ isPlaying' = played
    /\ playError' = IF played THEN playError ELSE <<PLAYFAIL>>
    /\ isInitializing' = FALSE
    /\ Moves(i, "returned")
    /\ UNCHANGED <<agentVars, libVars, clientVars, panelVars, strudelRepl, isInitialized,
                   samplesLoaded, audioContext, masterGainNode, initProgress, initStatus,
                   strudelRef>>

Audio_Init ==
    /\ AgentIdle /\ LibIdle
    /\ emitted = <<>> /\ wire = <<>> /\ handled = <<>> /\ clientPc = "idle"
    /\ storeMessages = <<>> /\ isLoading = FALSE /\ retryMessage = <<>>
    /\ history = <<>> /\ incoming = <<>> /\ lastEvent = <<>> /\ panelPc = "idle"
    /\ currentCode \in EditorCodes
    /\ AudioIdle

Audio_Next ==
    \/ Audio_Click
    \/ \E e \in KeyEvents : Audio_KeyDown(e)
    \/ Audio_Tick
    \/ \E i \in 1..MaxPlays : Audio_InitAdvances(i)
    \/ \E i \in 1..MaxPlays : Audio_ScopeReady(i)
    \/ \E i \in 1..MaxPlays : \E loaded \in BOOLEAN : Audio_SamplesSettle(i, loaded)
    \/ \E i \in 1..MaxPlays : Audio_InitFails(i)
    \/ \E i \in 1..MaxPlays : \E played \in BOOLEAN : Audio_EvaluateSettles(i, played)

AudioSpec == Audio_Init /\ [][Audio_Next]_vars

-----------------------------------------------------------------------------
Next ==
    \/ Fast_Entry
    \/ \E d \in Delays : Fast_Body(d)
    \/ \E d \in Delays : \E r \in Responses(invocations) : Fast_Returns(r, d)
    \/ \E d \in Delays : \E err \in Failures : Fast_Throws(err, d)
    \/ Stream_Entry
    \/ \E d \in Delays : Stream_Body(d)
    \/ \E d \in Delays : \E r \in Responses(invocations) : Stream_Returns(r, d)
    \/ \E d \in Delays : \E err \in Failures : Stream_Throws(err, d)
    \/ Chat_Entry
    \/ \E d \in Delays : Chat_Body(d)
    \/ \E d \in Delays : Chat_Returns(d)
    \/ \E d \in Delays : \E err \in Failures : \E late \in BOOLEAN : Chat_Throws(err, late, d)

Spec == Init /\ [][Next]_vars

\* the handler runs to its next await, and a pending invocation settles
LiveSpec == Spec /\ WF_vars(Next)

-----------------------------------------------------------------------------
(* Observations used by the properties *)

MaxIterationsOf == IF path = "fast" THEN FastMaxIterations ELSE StreamMaxIterations

Done == pc = "done"

\* the request passed the credential check and carried a list of messages, so
\* the agent loop was entered
LoopRun == path \in AgentPaths /\ apiKey /\ body.kind = "list" /\ pc \in {"await", "done"}

Events == SelectSeq(ctrl, LAMBDA o : o.op = "enqueue")
IsTerminal(e) == e.event \in {"complete", "error"}
TerminalEvents == SelectSeq(Events, IsTerminal)
StreamOpened == response.kind = "event-stream"

TooManyStepsText == "Generation taking too many steps. Try a simpler request."
TooLongText == "Generation taking too long. Try a simpler request."
GenericFailureText == "Failed to generate. Please try again."

\* the error message a finished run reports, "" when it reports none
ReportedError ==
    IF response.kind = "json"
    THEN IF "error" \in DOMAIN response.body THEN response.body.error ELSE ""
    ELSE IF TerminalEvents # <<>> /\ TerminalEvents[Len(TerminalEvents)].event = "error"
    THEN TerminalEvents[Len(TerminalEvents)].data.error
    ELSE ""

Succeeded ==
    \/ response.kind = "json" /\ response.status = 200 /\ "content" \in DOMAIN response.body
    \/ TerminalEvents # <<>> /\ TerminalEvents[Len(TerminalEvents)].event = "complete"

\* the content a successful run reports
ReportedContent ==
    IF response.kind = "json" THEN response.body.content
    ELSE TerminalEvents[Len(TerminalEvents)].data.content

TooManySteps == Done /\ ReportedError = TooManyStepsText
TimedOut == Done /\ response.kind = "json" /\ response.status = 504 /\ ReportedError = TooLongText
GenericFailure == Done /\ ReportedError = GenericFailureText

\* the latest response asked for a tool whose execution threw
ToolFault ==
    /\ settled.kind = "response"
    /\ settled.r.stop_reason = "tool_use"
    /\ Throwers(toolUseBlocks(settled.r.content)) # {}

-----------------------------------------------------------------------------
(* C1 *)

-----------------------------------------------------------------------------
(* C2 *)

\* C2 as stated: once the SSE stream is open, the events passed to sendSSE are
\* one started event, then progress and tools events only, then, when the run
\* is over, exactly one complete or error event, which is the last event.
C2_AsStated ==
    StreamOpened =>
        /\ Events # <<>>
        /\ Events[1].event = "status"
        /\ \A i \in 2..Len(Events) : Events[i].event # "status"
        /\ \A i \in 2..(Len(Events) - 1) : Events[i].event \in {"progress", "tools"}
        /\ \A i \in 1..(Len(Events) - 1) : ~IsTerminal(Events[i])
        /\ Done => IsTerminal(Events[Len(Events)])

-----------------------------------------------------------------------------
(* C3 *)

\* C3 as stated: on the fast path, when every capability call takes longer
\* than REQUEST_TIMEOUT_MS, there is no second invocation and the run ends with
\* the 504 'Generation taking too long' outcome (stated here for the runs in
\* which every requested tool call executed).
C3_AsStated ==
    (path = "fast" /\ LoopRun /\ allSlow /\ invocations >= 1 /\ ~ToolFault) =>
        /\ invocations <= 1
        /\ Done => TimedOut

\* C3 amended: on the fast path, when every capability call takes longer than
\* REQUEST_TIMEOUT_MS, there is no second invocation; the run ends with the 504
\* outcome exactly when the first invocation returned a tool request whose
\* tool calls all executed, and otherwise with that invocation's own outcome:
\* success, or the error of the failed invocation or of the tool call that threw.
C3_WallClock ==
    (path = "fast" /\ LoopRun /\ allSlow) =>
        /\ invocations <= 1
        /\ (Done /\ invocations = 1) =>
              /\ TimedOut <=> (settled.kind = "response" /\ IsToolRequest(settled.r)
                               /\ ~ToolFault)
              /\ ~TooManySteps
              /\ \/ TimedOut
                 \/ Succeeded /\ settled.kind = "response" /\ ~IsToolRequest(settled.r)
                 \/ ReportedError # "" /\ (settled.kind = "error" \/ ToolFault)

C3_Witness ==
    /\ path = "fast" /\ LoopRun /\ allSlow /\ invocations = 1 /\ elapsed > REQUEST_TIMEOUT_MS
    /\ settled.kind = "response" /\ TimedOut

-----------------------------------------------------------------------------
(* C4 *)

\* terminal outcomes produced so far: a JSON response, or a terminal event
OutcomeCount ==
    (IF response.kind \in {"json", "text-stream"} THEN 1 ELSE 0) + Len(TerminalEvents)

\* C4: every run eventually stops; it has produced exactly one terminal
\* outcome when it stops and none before, and after the outcome there is no
\* capability invocation and no tool dispatch.
C4_Termination ==
    /\ <>Done
    /\ [](OutcomeCount <= 1)
    /\ [](Done <=> OutcomeCount = 1)
    /\ [][Done => (Done' /\ invocations' = invocations /\ dispatches' = dispatches)]_vars

C4_Witness ==
    /\ Done /\ LoopRun /\ invocations >= 2 /\ dispatches >= 2 /\ Succeeded /\ OutcomeCount = 1

-----------------------------------------------------------------------------
(* C5 *)

\* C5 as stated: when an invocation throws, the run is over and the error it
\* reports carries the upstream error's message.
C5_AsStated ==
    (path \in AgentPaths /\ settled.kind = "error") => (Done /\ ReportedError = settled.err.message)

\* C5 amended: when an invocation throws, the loop makes no further invocation
\* and no tool dispatch and the run ends with the error outcome; its message is
\* the upstream message when the error is an Anthropic.APIError and the fixed
\* 'Failed to generate. Please try again.' otherwise.
C5_NoRetry ==
    /\ []((path \in AgentPaths /\ settled.kind = "error") =>
            /\ Done /\ ~Succeeded
            /\ ReportedError = IF settled.err.api THEN settled.err.message
                               ELSE GenericFailureText)
    /\ [][(path \in AgentPaths /\ pc = "await" /\ settled'.kind = "error") =>
            (Done' /\ invocations' = invocations /\ dispatches' = dispatches
                   /\ currentMessages' = currentMessages)]_vars

C5_Witness ==
    /\ settled.kind = "error" /\ settled.err.api /\ Done /\ invocations >= 2
    /\ ReportedError = settled.err.message

-----------------------------------------------------------------------------
(* C6 *)

Closes == {i \in 1..Len(ctrl) : ctrl[i].op = "close"}
TerminalAt(i) == ctrl[i].op = "enqueue" /\ IsTerminal(ctrl[i])

\* C6: the stream controller is closed at most once; the close is the last
\* operation on it (no sendSSE follows) and comes directly after the terminal
\* event; every terminal event is directly followed by the close; a finished
\* streaming run has closed its controller.
C6_ChannelClosure ==
    path = "stream" =>
        /\ Cardinality(Closes) <= 1
        /\ \A i \in Closes : i = Len(ctrl) /\ i > 1 /\ TerminalAt(i - 1)
        /\ \A i \in 1..Len(ctrl) : TerminalAt(i) => (i + 1) \in Closes
        /\ (Done /\ StreamOpened) => Closes # {}

C6_Witness ==
    /\ path = "stream" /\ Done /\ TooManySteps /\ Closes = {Len(ctrl)}

-----------------------------------------------------------------------------
(* C7 *)

\* C7 as stated: every complete event carries the content, the iteration
\* count, the elapsed time and the validation boolean.
C7_AsStated ==
    \A i \in 1..Len(Events) :
        Events[i].event = "complete" =>
            {"content", "iterations", "timeMs", "validated"} \subseteq DOMAIN Events[i].data

-----------------------------------------------------------------------------
(* C8 *)

\* whether the first fenced block of a text passes the validator
FencedCodeValid(text) ==
    MatchFenced(text) # <<>> /\ validateStrudelCode(Trim(MatchFenced(text)[1])).valid

\* C8 as stated: the validated flag of every complete event is the validity
\* of the first fenced block of its content, false when there is none,
\* whatever tool calls the run made.
C8_AsStated ==
    \A i \in 1..Len(Events) :
        Events[i].event = "complete" =>
            /\ "validated" \in DOMAIN Events[i].data
            /\ Events[i].data.validated = FencedCodeValid(Events[i].data.content)

-----------------------------------------------------------------------------
(* C9 *)

\* the two turns a tool request r adds to the conversation cm, giving cm2
GrownBy(cm, cm2, r) ==
    LET blocks == toolUseBlocks(r.content)
        n      == Len(cm)
    IN  /\ Len(cm2) = n + 2
        /\ SubSeq(cm2, 1, n) = cm
        /\ cm2[n + 1].role = "assistant" /\ cm2[n + 1].content = r.content
        /\ cm2[n + 2].role = "user"
        /\ Len(cm2[n + 2].content) = Len(blocks)
        /\ \A i \in 1..Len(blocks) :
              /\ cm2[n + 2].content[i].type = "tool_result"
              /\ cm2[n + 2].content[i].tool_use_id = blocks[i].id

\* C9 as stated: an invocation that stops with tool_use and at least one tool
\* call makes the conversation grow by the assistant turn and the tool-result
\* turn, and the next invocation receives the grown conversation; an
\* invocation that settles in any other way leaves the conversation as it was.
C9_AsStated ==
    [][pc = "await" =>
         IF settled'.kind = "response" /\ IsToolRequest(settled'.r)
         THEN /\ GrownBy(currentMessages, currentMessages', settled'.r)
              /\ pc' = "await" => inflight' = currentMessages'
         ELSE currentMessages' = currentMessages]_vars

-----------------------------------------------------------------------------
(* C10 *)

\* the text blocks of a content, in order, with a newline between them
RECURSIVE TextOf(_)
TextOf(content) ==
    IF content = <<>> THEN <<>>
    ELSE IF Head(content).type # "text" THEN TextOf(Tail(content))
    ELSE IF \A i \in 2..Len(content) : content[i].type # "text" THEN Head(content).text
    ELSE Head(content).text \o <<NL>> \o TextOf(Tail(content))

\* tool_use without a tool-use block, or a stop reason that is neither
\* end_turn nor tool_use
Defensive(r) ==
    \/ r.stop_reason = "tool_use" /\ \A i \in 1..Len(r.content) : r.content[i].type # "tool_use"
    \/ r.stop_reason \notin {"end_turn", "tool_use"}

\* C10: a response with a defensive stop signal ends the run in the iteration
\* that received it, with the success outcome carrying the response's text; no
\* error is reported and no tool is dispatched for it.
C10_DefensiveStop ==
    (settled.kind = "response" /\ Defensive(settled.r)) =>
        /\ Done /\ Succeeded
        /\ ReportedError = ""
        /\ ReportedContent = TextOf(settled.r.content)
        /\ iterations = invocations
        /\ path = "fast" => response.body.iterations = invocations
        /\ path = "stream" => TerminalEvents[1].data.iterations = invocations

C10_Witness ==
    /\ path = "fast" /\ settled.kind = "response" /\ settled.r.stop_reason = "max_tokens"
    /\ Succeeded /\ ReportedContent # <<>> /\ invocations >= 2

-----------------------------------------------------------------------------
(* C11 *)

\* the terminal output of a finished run: the JSON body, or the data of the
\* last terminal event
TerminalOutput ==
    IF response.kind = "json" THEN response.body
    ELSE IF TerminalEvents # <<>> THEN TerminalEvents[Len(TerminalEvents)].data
    ELSE [empty |-> TRUE]

\* C11: when the first invocation returns end_turn the run is over after that
\* one invocation, with the success outcome reporting iterations = 1; and the
\* iterations value of every terminal output is the number of invocations made.
C11_SingleTurn ==
    path \in AgentPaths =>
        /\ (settled.kind = "response" /\ invocations = 1
              /\ settled.r.stop_reason = "end_turn") =>
                 /\ Done /\ Succeeded
                 /\ "iterations" \in DOMAIN TerminalOutput
                 /\ TerminalOutput.iterations = 1
        /\ (Done /\ "iterations" \in DOMAIN TerminalOutput) =>
                 TerminalOutput.iterations = invocations

C11_Witness ==
    /\ path = "stream" /\ Done /\ Succeeded /\ invocations = 1
    /\ settled.kind = "response" /\ settled.r.stop_reason = "end_turn"
    /\ TerminalOutput.iterations = 1

-----------------------------------------------------------------------------
(* C12 *)

ProgressEvents == SelectSeq(Events, LAMBDA e : e.event = "progress")
StartedEvents == SelectSeq(Events, LAMBDA e : e.event = "status")

\* C12: on the streaming route, a run that has invoked the capability began
\* its events with the one started event; the progress events number the
\* invocations 1, 2, 3, ... one for one; and while an invocation is pending,
\* the last thing done on the controller was to send its progress event.
C12_ProgressPerIteration ==
    path = "stream" =>
        /\ invocations >= 1 =>
              /\ Events[1].event = "status" /\ Events[1].data.status = "started"
              /\ Len(StartedEvents) = 1
        /\ Len(ProgressEvents) = invocations
        /\ \A i \in 1..Len(ProgressEvents) : ProgressEvents[i].data.iteration = i
        /\ pc = "await" =>
              /\ ctrl[Len(ctrl)].op = "enqueue"
              /\ ctrl[Len(ctrl)].event = "progress"
              /\ ctrl[Len(ctrl)].data.iteration = invocations

C12_Witness ==
    /\ path = "stream" /\ pc = "await" /\ invocations = 3
    /\ Len(ProgressEvents) = 3 /\ ProgressEvents[3].data.iteration = 3
    /\ Events[1].event = "status"

-----------------------------------------------------------------------------
(* C13 *)

\* the names of the tool calls a response requests, in request order
RequestedNames(r) ==
    LET calls == SelectSeq(r.content, LAMBDA b : b.type = "tool_use")
    IN  [i \in 1..Len(calls) |-> calls[i].name]

\* the status wording for a list of tool names
WordingFor(names) ==
    LET used == {names[i] : i \in 1..Len(names)}
    IN  IF "validate_code" \in used THEN "Validating code..."
        ELSE IF "read_genre" \in used THEN "Loading genre patterns..."
        ELSE "Processing..."

IsToolsEvent(o) == o.op = "enqueue" /\ o.event = "tools"

\* C13: on the streaming route, the handling of a response that dispatches
\* tool calls sends exactly one tools event, directly after the iteration's
\* progress event and before anything else (the next progress event or the
\* error of a tool call that threw), naming the requested tools in request
\* order with the wording for them; the handling of a response that
\* dispatches no tool call sends no tools event.
C13_ToolsEvent ==
    [][(path = "stream" /\ pc = "await" /\ settled'.kind = "response") =>
          LET n == Len(ctrl)
              names == RequestedNames(settled'.r)
          IN  IF dispatches' > dispatches
              THEN /\ Len(ctrl') > n /\ SubSeq(ctrl', 1, n) = ctrl
                   /\ ctrl[n].op = "enqueue" /\ ctrl[n].event = "progress"
                   /\ IsToolsEvent(ctrl'[n + 1])
                   /\ ctrl'[n + 1].data.tools = names
                   /\ ctrl'[n + 1].data.message = WordingFor(names)
                   /\ \A i \in (n + 2)..Len(ctrl') : ~IsToolsEvent(ctrl'[i])
                   /\ pc' = "await" =>
                         /\ Len(ctrl') = n + 2
                         /\ ctrl'[n + 2].op = "enqueue" /\ ctrl'[n + 2].event = "progress"
              ELSE \A i \in (n + 1)..Len(ctrl') : ~IsToolsEvent(ctrl'[i])]_vars

C13_Witness ==
    /\ path = "stream" /\ pc = "await" /\ invocations = 2 /\ dispatches = 2
    /\ settled.kind = "response"
    /\ RequestedNames(settled.r) = <<"read_genre", "validate_code">>
    /\ IsToolsEvent(ctrl[Len(ctrl) - 1])
    /\ ctrl[Len(ctrl) - 1].data.message = "Validating code..."

-----------------------------------------------------------------------------
(* C14 *)

\* the kinds of result that are strings
StringKinds == {"text", "report", "genre", "unknown_genre", "unknown_tool"}

\* C14 as stated: executeTool returns a string for every tool call a response
\* requests and never throws, so no run is ended by a tool call.
C14_AsStated ==
    (path \in AgentPaths /\ settled.kind = "response") =>
        LET blocks == toolUseBlocks(settled.r.content)
        IN  /\ \A i \in 1..Len(blocks) :
                  LET res == executeTool(blocks[i].name, blocks[i].input)
                  IN  ~res.threw /\ res.value.kind \in StringKinds
            /\ IsToolRequest(settled.r) => ~GenericFailure

-----------------------------------------------------------------------------
(* C15 *)

\* a tool call with a recoverable condition: a tool that is not registered, a
\* genre key that is not bundled, or code that fails validation
Recoverable(b) ==
    \/ b.name \notin {"read_genre", "validate_code"}
    \/ /\ b.name = "read_genre"
       /\ Get(b.input, "genre").t = "string"
       /\ NormalizeGenre(Get(b.input, "genre").v) \notin AVAILABLE_GENRES
    \/ /\ b.name = "validate_code"
       /\ Get(b.input, "code").t = "string" /\ Get(b.input, "code").v # <<>>
       /\ ~validateStrudelCode(Get(b.input, "code").v).valid

\* C15 as stated: when a response requests tool calls that all execute and
\* some of them meet a recoverable condition, each of those calls yields a
\* describing string in the tool-result turn appended to the conversation, no
\* error is reported for it, and the loop goes on to its next iteration unless
\* a budget ends the run.
C15_AsStated ==
    [][(path \in AgentPaths /\ pc = "await" /\ settled'.kind = "response"
          /\ IsToolRequest(settled'.r)
          /\ Throwers(toolUseBlocks(settled'.r.content)) = {}) =>
          LET blocks == toolUseBlocks(settled'.r.content)
              n      == Len(currentMessages)
          IN  (\E i \in 1..Len(blocks) : Recoverable(blocks[i])) =>
                 /\ Len(currentMessages') = n + 2
                 /\ \A i \in 1..Len(blocks) :
                       Recoverable(blocks[i]) =>
                          currentMessages'[n + 2].content[i].content.kind
                              \in {"unknown_tool", "unknown_genre", "report"}
                 /\ pc' = "await" \/ TooManySteps' \/ TimedOut']_vars

-----------------------------------------------------------------------------
(* C16 *)

\* C16 as stated: on the agent routes a request whose body does not parse, or
\* whose messages are not a list, is answered with a 4xx status and an error
\* text, no capability invocation having been made and no event sent.
C16_AsStated ==
    (path \in AgentPaths /\ apiKey /\ body.kind # "list" /\ Done) =>
        /\ response.kind = "json"
        /\ response.status >= 400 /\ response.status <= 499
        /\ "error" \in DOMAIN response.body
        /\ invocations = 0
        /\ Events = <<>>

-----------------------------------------------------------------------------
(* C17 *)

\* the texts that report a missing credential
ConfigurationTexts ==
    { "ANTHROPIC_API_KEY not configured",
      "API key not configured",
      "API key not configured. Please add OPENAI_API_KEY to .env.local" }

\* the responses with which a route answers a failure met after the
\* credential check: of the body, of the conversion, of the capability
RuntimeFailureResponses(p) ==
    LET errs == Failures \cup {LocalError}
    IN  CASE p = "fast"   -> { FastCatch(e, <<>>, 0).response : e \in errs }
          [] p = "stream" -> { SseResponse, Json(400, [error |-> "Invalid request body"]) }
          [] OTHER        -> { ChatCatch(p, e) : e \in errs } \cup {TextResponse}

-----------------------------------------------------------------------------
(* C18 *)

\* the status of the fast path's generic failure response
GenericFailureStatus == FastCatch(LocalError, <<>>, 0).response.status

\* C18 as stated: every success response of the fast path has a 2xx status
\* and exactly the fields content, iterations and timeMs; every budget outcome
\* (wall clock or iteration cap) has a status that is neither 2xx nor the
\* status of the generic failure.
C18_AsStated ==
    (path = "fast" /\ Done) =>
        /\ Succeeded =>
              /\ response.status >= 200 /\ response.status <= 299
              /\ DOMAIN response.body = {"content", "iterations", "timeMs"}
        /\ (TooManySteps \/ TimedOut) =>
              /\ ~(response.status >= 200 /\ response.status <= 299)
              /\ response.status # GenericFailureStatus

-----------------------------------------------------------------------------
(* C19 *)

\* the case of the chat client's switch that handles an event
ClientCase(e) ==
    CASE e.event \in {"status", "progress", "tools"} -> "update"
      [] e.event = "complete" -> "complete"
      [] e.event = "error" -> "throw"
      [] OTHER -> "ignored"

\* C19 as stated: on the streaming route the terminal event sent when the
\* iteration cap is reached is of another kind, and is handled by another case
\* of the client, than the terminal event sent for a failed invocation.
C19_AsStated ==
    (path = "stream" /\ TooManySteps) =>
        \A err \in Failures :
            LET cap  == TerminalEvents[Len(TerminalEvents)]
                sent == StreamCatch(err, <<>>, <<>>, 0).ctrl[1]
            IN  /\ cap.event # sent.event
                /\ ClientCase(cap) # ClientCase(sent)

-----------------------------------------------------------------------------
(* C20 *)

\* messages that tell the user to wait and retry, and to check the configuration
WaitAndRetryTexts ==
    { "Rate limit exceeded. Please wait and try again.", "Rate limited. Please try again." }
CheckConfigurationTexts ==
    { "Invalid API key. Please check your OPENAI_API_KEY.", "Invalid API key" }
GenericFailureTexts ==
    { GenericFailureText, "Failed to generate response",
      "Failed to generate response. Please try again." }

\* C20 as stated: on the chat route and on the agent routes, when the
\* capability call is rejected with status 429 the caller is told to wait and
\* retry, and when it is rejected with status 401 the caller is told to check
\* the configuration; neither message is the generic failure message.
C20_AsStated ==
    (settled.kind = "error" /\ settled.err.api /\ Done) =>
        /\ settled.err.status = 429 => ReportedError \in WaitAndRetryTexts
        /\ settled.err.status = 401 => ReportedError \in CheckConfigurationTexts
        /\ settled.err.status \in {401, 429} => ReportedError \notin GenericFailureTexts

-----------------------------------------------------------------------------
(* The validator's contract *)

\* the calls made so far
Calls == {validations[i] : i \in 1..Len(validations)}

\* the results of a call, one per copy of the function
ResultsOf(v) == {v.result, v.alt}

\* C22: whatever the argument, each copy of validateStrudelCode returns valid
\* true exactly when the errors it returns are empty, whether or not it
\* returns warnings
C22_ValidityInvariant ==
    \A v \in Calls : \A r \in ResultsOf(v) : r.valid <=> (r.errors = <<>>)

\* each copy has accepted a code with a warning, and a code was rejected
\* without one
C22_Witness ==
    /\ \E v \in Calls : v.result.valid /\ v.result.warnings # <<>>
    /\ \E v \in Calls : v.alt.valid /\ v.alt.warnings # <<>>
    /\ \E v \in Calls : \E r \in ResultsOf(v) : ~r.valid /\ r.warnings = <<>>

\* the code is not a program of the grammar
SyntaxFails(code) ==
    \E i \in 1..Len(SplitLines(code)) : ~LineParses(SplitLines(code)[i])

SyntaxErrors == {"Syntax error (line " \o ToString(n) \o ")" : n \in 1..(MaxLines + 1)}

\* C23: for a code that fails to parse, each copy of validateStrudelCode
\* returns valid false, the syntax error as its only error and no warning,
\* whatever the tempo, playable, deny-list and hygiene checks would have
\* said of the code
C23_ParseShortCircuit ==
    \A v \in Calls : SyntaxFails(v.code) =>
        \A r \in ResultsOf(v) :
            /\ ~r.valid
            /\ Len(r.errors) = 1 /\ r.errors[1] \in SyntaxErrors
            /\ r.warnings = <<>>

\* a code that fails to parse, lacks the tempo and calls a deny-listed
\* method was validated
C23_Witness ==
    \E v \in Calls : /\ SyntaxFails(v.code)
                      /\ ~Includes(v.code, "setcps(")
                      /\ Includes(v.code, ".glide(")

\* the code holds no tempo-setting call
LacksTempo(code) == \A i \in 1..Len(code) : code[i] \notin {SETCPS, SETCPSQ}

TempoErrors ==
    { "Missing tempo - use setcps(BPM/4/60), e.g. setcps(130/4/60)",
      "Missing tempo - set BPM using setcps(BPM/4/60), e.g. setcps(130/4/60) for 130 BPM" }

MentionsTempo(r) == \E i \in 1..Len(r.errors) : r.errors[i] \in TempoErrors

\* C24, restricted to codes that parse: for a code that parses and holds no
\* setcps( call, the errors of each copy of validateStrudelCode hold the
\* entry on the missing tempo, whatever else the code holds
C24_TempoWhenParsed ==
    \A v \in Calls : (~SyntaxFails(v.code) /\ LacksTempo(v.code)) =>
        \A r \in ResultsOf(v) : MentionsTempo(r)

\* a code that parses, lacks the tempo and has another error was validated
C24_Witness ==
    \E v \in Calls : /\ ~SyntaxFails(v.code) /\ LacksTempo(v.code)
                      /\ Includes(v.code, ".glide(")
                      /\ Len(v.result.errors) > 1

\* C24 as stated: for every code that holds no setcps( call the errors hold
\* the entry on the missing tempo
C24_AsStated ==
    \A v \in Calls : LacksTempo(v.code) => \A r \in ResultsOf(v) : MentionsTempo(r)

DenyListed == {"tempo", "glide", "portamento", "slide", "volume"}

\* the deny-listed names the code calls as methods
DenyListedIn(code) ==
    {d \in DenyListed : \E i \in 1..Len(code) : ("." \o d \o "(") \in Substrings(code[i])}

\* how many errors of r name the call d
EntriesNaming(r, d) ==
    Cardinality({i \in 1..Len(r.errors) : r.errors[i] = d \o " is not a real Strudel function"})

\* C25, restricted to codes that parse: for a code that parses, the errors of
\* validateStrudelCode (part_005) hold exactly one entry for each deny-listed
\* name the code calls as a method, naming it, however often it is called,
\* and none for the other names
C25_DenyListWhenParsed ==
    \A v \in Calls : ~SyntaxFails(v.code) =>
        \A d \in DenyListed :
            EntriesNaming(v.result, d) = IF d \in DenyListedIn(v.code) THEN 1 ELSE 0

\* a code that parses and calls one deny-listed method twice was validated,
\* and so was one that calls two of them
C25_Witness ==
    /\ \E v \in Calls : /\ ~SyntaxFails(v.code)
                         /\ Cardinality({i \in 1..Len(v.code) : v.code[i] = GLIDE}) = 2
    /\ \E v \in Calls : ~SyntaxFails(v.code) /\ Cardinality(DenyListedIn(v.code)) = 2

\* C25 as stated: for every code the errors hold exactly one entry for each
\* deny-listed name the code calls
C25_AsStated ==
    \A v \in Calls :
        \A d \in DenyListedIn(v.code) : EntriesNaming(v.result, d) = 1

\* the entries the hygiene checks produce: the token undefined, the empty
\* assignment, the unquoted argument of s(), the long chains, the repeated
\* sections and the missing playable expression
HygieneEntries ==
    { "Code contains undefined - check variable names",
      "Code contains undefined - check variable names are defined before use",
      "Empty variable assignment found",
      "Found empty variable assignment (let x = ;)",
      "Pattern s(130/4/60) might be missing quotes",
      "Consider breaking long method chains into variables for readability",
      "Anti-pattern: Same sections repeated in arrange()",
      ".s() is typically used after note()",
      "Code should end with stack(), arrange(), or a pattern expression",
      "Code may not have a playable expression" }

\* C27 as stated: no entry of a hygiene check is among the errors that a copy
\* of validateStrudelCode returns, so that none of them makes valid false
C27_AsStated ==
    \A v \in Calls : \A r \in ResultsOf(v) :
        \A i \in 1..Len(r.errors) : r.errors[i] \notin HygieneEntries

\* the playable constructs the validator recognises by name
HasConstruct(code) ==
    \E i \in 1..Len(code) : code[i] \in {STACK, ARRANGE, CHAINS, OPEN}

\* C26 as stated: a non-empty code that parses, holds a setcps( call, calls
\* no deny-listed method and holds a recognised playable construct is valid,
\* with no errors, under each copy of validateStrudelCode, whatever else it
\* holds
C26_AsStated ==
    \A v \in Calls :
        ( /\ v.code # <<>>
          /\ ~SyntaxFails(v.code)
          /\ ~LacksTempo(v.code)
          /\ DenyListedIn(v.code) = {}
          /\ HasConstruct(v.code) )
        => \A r \in ResultsOf(v) : r.valid /\ r.errors = <<>>

Reports ==
    {[result |-> v.result, report |-> v.report] : v \in Calls} \cup
    {[result |-> v.alt, report |-> v.altReport] : v \in Calls}

\* the lines of the report after the first line and the error bullets
AfterErrors(p) == SubSeq(p.report, 2 + Len(p.result.errors), Len(p.report))

\* C30: the report of a validation result starts with a line that says
\* whether the code is valid, goes on with one bullet line for each error, in
\* order, and ends with a warnings section, which is a separating blank line,
\* the heading and one bullet line for each warning, in order; the section is
\* there exactly when there are warnings
C30_ReportFormat ==
    \A p \in Reports :
        LET r == p.result
            rest == AfterErrors(p)
        IN  /\ Len(p.report) >= 1 + Len(r.errors)
            /\ p.report[1] = IF r.valid THEN "Code is valid!" ELSE "Validation failed:"
            /\ \A i \in 1..Len(r.errors) : p.report[1 + i] = "  - " \o r.errors[i]
            /\ IF r.warnings = <<>>
               THEN rest = <<>>
               ELSE /\ Len(rest) = 2 + Len(r.warnings)
                    /\ rest[1] = "" /\ rest[2] = "Warnings:"
                    /\ \A i \in 1..Len(r.warnings) : rest[2 + i] = "  ! " \o r.warnings[i]
            /\ (\E i \in 1..Len(p.report) : p.report[i] = "Warnings:") <=> r.warnings # <<>>

\* a result with two errors and a warning was formatted, and so was a valid
\* result without warnings
C30_Witness ==
    /\ \E p \in Reports : Len(p.result.errors) >= 2 /\ Len(p.result.warnings) >= 1
    /\ \E p \in Reports : p.result.valid /\ p.result.warnings = <<>>

-----------------------------------------------------------------------------
(* The bound on reference content *)

OmissionNote == "\n(See full genre file for FX/structure details)"
Ellipsis == "\n..."

\* the lines of a content that precede its first heading (all of them when it
\* has none), and their length, line ends included
BeforeHeading(content) ==
    LET hs == {i \in 1..Len(content) : content[i].kind \in {"fx", "structure"}}
    IN  IF hs = {} THEN content ELSE SubSeq(content, 1, Min(hs) - 1)

LengthWithEnds(lines) == SumSeq([i \in 1..Len(lines) |-> lines[i].len + 1])

\* C29 as stated: truncateGenreContent returns a content of at most 2500
\* characters unchanged; of a longer one it returns the lines before the
\* first FX or structure heading and the omission note when that heading
\* comes within the threshold, and the first 2500 characters and the ellipsis
\* otherwise; and what read_genre returns for the content is never longer
\* than 2500 characters and the suffix, in any of the routes
C29_AsStated ==
    genreOut # <<>> =>
        LET c == genreContent
            t == genreOut[1].truncated
            pre == LengthWithEnds(BeforeHeading(c))
        IN  /\ ContentLength(c) <= TruncateLimit =>
                   t = [keep |-> ContentLength(c), tail |-> ""]
            /\ ContentLength(c) > TruncateLimit =>
                   IF BeforeHeading(c) # c /\ pre <= TruncateLimit
                   THEN t = [keep |-> pre, tail |-> OmissionNote]
                   ELSE t = [keep |-> TruncateLimit, tail |-> Ellipsis]
            /\ \A o \in {genreOut[1].agent, genreOut[1].nonStreaming} :
                   o.keep + Len(o.tail) <= TruncateLimit + Len(OmissionNote)

-----------------------------------------------------------------------------
(* Delivery of the events to the client *)

\* the events of the request as the client should process them
Delivered == [i \in 1..Len(emitted) |-> [event |-> emitted[i], data |-> i]]

\* C21 as stated: when the client has finished reading the response, it has
\* processed every event the server sent, once each and in the order sent,
\* the terminal complete or error event among them, however the body was cut
\* into chunks
C21_AsStated ==
    clientPc \in {"done", "thrown"} => handled = Delivered

-----------------------------------------------------------------------------
(* Order of the budget checks *)

\* the fast-path run ended at the head of its loop: the latest invocation
\* returned a tool request whose tool calls all executed
EndedAtLoopHead ==
    /\ path = "fast" /\ Done /\ LoopRun
    /\ settled.kind = "response" /\ IsToolRequest(settled.r) /\ ~ToolFault

\* C31 as stated: a fast-path run that comes to the head of its loop with the
\* elapsed time beyond REQUEST_TIMEOUT_MS and the iteration count at
\* maxIterations ends with the wall-clock outcome, not with 'too many steps'
C31_AsStated ==
    (EndedAtLoopHead /\ elapsed > REQUEST_TIMEOUT_MS /\ iterations = FastMaxIterations)
        => (TimedOut /\ ~TooManySteps)

-----------------------------------------------------------------------------
(* The chat panel's contract *)

\* the last message of the store was produced by the complete event e
ProducedBy(e) ==
    /\ e.event = "complete"
    /\ storeMessages # <<>>
    /\ storeMessages[Len(storeMessages)].role = "assistant"
    /\ storeMessages[Len(storeMessages)].content = e.data.content
    /\ panelPc \in {"reading", "idle"} /\ Len(storeMessages) = 2 * Len(history)

\* C32 as stated: a message produced by a complete event shows the Validated
\* badge only if the event carried validated = true; it shows none when the
\* event carried validated = false or no validated field
C32_AsStated ==
    \A i \in 1..Len(lastEvent) :
        (ProducedBy(lastEvent[i]) /\ ShowsValidated(storeMessages[Len(storeMessages)]))
            => ( /\ "validated" \in DOMAIN lastEvent[i].data
                 /\ lastEvent[i].data.validated = TRUE )

\* how often a message occurs in a list, and whether a list holds a failed
\* assistant response
Occurrences(msgs, role, content) ==
    Cardinality({i \in 1..Len(msgs) : msgs[i].role = role /\ msgs[i].content = content})

HoldsFailure(msgs) ==
    \E i \in 1..Len(msgs) :
        msgs[i].role = "assistant" /\ \E k \in 1..Len(msgs[i].content) : msgs[i].content[k] = WARNSIGN

\* C33 as stated: when a retry has been sent, the message list and the list
\* sent to the server hold the retried user message once and do not hold the
\* failed assistant message
C33_AsStated ==
    [][ Panel_Retry =>
          /\ Occurrences(storeMessages', "user", retryMessage[1]) = 1
          /\ Occurrences(history'[Len(history')], "user", retryMessage[1]) = 1
          /\ ~HoldsFailure(storeMessages')
          /\ ~HoldsFailure(history'[Len(history')]) ]_vars

\* the argument checkIfCodeValidated passes to validateStrudelCode for a
\* content: <<>> when the content has no fenced block
ValidatedArgument(content) ==
    IF MatchFenced(content) = <<>> THEN <<>> ELSE <<Trim(MatchFenced(content)[1])>>

\* the code the client places into the editor for a content: <<>> when it
\* places none
Placed(content) ==
    IF extractCode(content) \in {<<>>, << <<>> >>} THEN <<>> ELSE extractCode(content)

\* C34 as stated: when the client has processed a complete event, the code it
\* placed into the editor is the string the server validated to compute the
\* event's validated flag, and when it extracted no code the flag is false
C34_AsStated ==
    \A i \in 1..Len(lastEvent) :
        LET e == lastEvent[i]
        IN  ProducedBy(e) =>
              /\ Placed(e.data.content) # <<>> =>
                    /\ currentCode = Placed(e.data.content)
                    /\ "validated" \in DOMAIN e.data
                    /\ ValidatedArgument(e.data.content) = Placed(e.data.content)
                    /\ e.data.validated = validateStrudelCode(currentCode[1]).valid
              /\ extractCode(e.data.content) = <<>> =>
                    /\ "validated" \in DOMAIN e.data
                    /\ e.data.validated = FALSE

\* a complete event was processed in the run that is ending
CompleteProcessed == lastEvent # <<>> /\ lastEvent[1].event = "complete"

\* the run ends in the catch block
EndsInError ==
    /\ isLoading /\ ~isLoading'
    /\ \E k \in 1..Len(storeMessages'[Len(storeMessages')].content) :
           storeMessages'[Len(storeMessages')].content[k] = WARNSIGN

\* C36 as stated: a sendMessage call that set isLoading sets it back to false,
\* whatever the outcome; a run that ends in an error leaves the retry message
\* at the user message that failed; and the retry message is cleared only by a
\* run in which a complete event was processed
C36_AsStated ==
    /\ isLoading ~> ~isLoading
    /\ [][ EndsInError =>
             retryMessage' = <<storeMessages[Len(storeMessages) - 1].content>> ]_vars
    /\ [][ (retryMessage # <<>> /\ retryMessage' = <<>>) => CompleteProcessed ]_vars

\* the number of initStrudel executions that created an AudioContext and then
\* a REPL instance: every execution that reaches repl() created a context first
FullInits == strudelRepl

\* C35 as stated: however the handlePlay invocations interleave, at most one
\* initStrudel execution creates an AudioContext and a REPL instance, and
\* whenever isStrudelReady() is true the init progress is 'ready'
C35_AsStated ==
    /\ FullInits <= 1
    /\ isStrudelReady => initProgress = "ready"

\* the read_genre calls of a response whose genre argument is a string
GenreCalls(r) ==
    LET blocks == toolUseBlocks(r.content)
    IN  { blocks[i].input : i \in { j \in 1..Len(blocks) :
                                      /\ blocks[j].name = "read_genre"
                                      /\ Get(blocks[j].input, "genre").t = "string" } }

\* executeTool('read_genre', input) returns the content of the genre key
ReturnsGenre(input, key) ==
    LET res == executeTool("read_genre", input)
    IN  /\ ~res.threw
        /\ res.value = [kind |-> "genre", genre |-> key,
                        text |-> truncateGenreContent(BUNDLED_GENRES[key])]

\* executeTool('read_genre', input) returns the 'Unknown genre' message
ReturnsUnknownGenre(input) ==
    LET res == executeTool("read_genre", input)
    IN  /\ ~res.threw
        /\ res.value.kind = "unknown_genre"
        /\ res.value.available = AVAILABLE_GENRES

\* C37 as stated: a read_genre call whose key is one of AVAILABLE_GENRES
\* returns that genre's content, truncated where it is long, and a call whose
\* key is no genre key, however it is written, returns the 'Unknown genre'
\* message listing the available keys.
C37_AsStated ==
    (path \in AgentPaths /\ settled.kind = "response") =>
        \A input \in GenreCalls(settled.r) :
            LET key == Get(input, "genre").v
            IN  /\ key \in AVAILABLE_GENRES => ReturnsGenre(input, key)
                /\ NormalizeGenre(key) \notin AVAILABLE_GENRES => ReturnsUnknownGenre(input)

====
